---- MODULE Spec2Model ----
(***************************************************************************)
(* A state-machine model of the compact_strings containers:                *)
(*   - CompactBytestrings   (src/src/compact_bytestrings.rs)               *)
(*   - FixedCompactBytestrings (src/src/fixed_compact_bytestrings.rs)      *)
(*   - the stand-alone CompactStrings of src/src/lib.rs                    *)
(* Bytes are small naturals, a Vec is a sequence, indices are 0-based as   *)
(* in the source (Idx converts to the 1-based sequences of TLA+).          *)
(***************************************************************************)
EXTENDS Integers, Sequences, FiniteSets, TLC

VARIABLES
    no_unsafe,      \* build: cfg!(feature = "no_unsafe")
    little_endian,  \* build: byte order of the target (bytemuck is native-endian)
    op,             \* the last operation performed, [name, index]
    cb,             \* the CompactBytestrings under test: [data, meta]
    cb_ref,         \* the plain ordered sequence driven by the same operations
    cb_fault,       \* "none", or why the last CompactBytestrings call did not return
    cb_ops,         \* how many mutating calls cb has received
    cb_it,          \* Iter over cb: [active, front, back]
    cb_out,         \* what the iterator has returned so far: Seq([side, item])
    fx,             \* the FixedCompactBytestrings under test: [data, starts]
    fx_ref,         \* the Vec<Vec<u8>> model driven by the same operations
    fx_fault,       \* "none", or why the last FixedCompactBytestrings call did not return
    fx_ops,         \* how many mutating calls fx has received
    fx_it,          \* Iter over fx: [active, front, back, data_len]
    fx_out,         \* what the iterator has returned so far: Seq([side, item])
    ls,             \* the CompactStrings of lib.rs under test: [data, meta]
    ls_fault,       \* "none", or why the last CompactStrings call did not return
    ls_ops,         \* how many mutating calls ls has received
    tf,             \* the last TryFrom conversion: [of, result, owner]
    panic_msg,      \* <<>>, or <<index, len>> as the last panic reported them
    cs_it,          \* Iter of compact_strings.rs over CompactStrings(cb): [active, index]
    fcs_it,         \* Iter of fixed_compact_strings.rs: the Iter over fx it wraps
    ls_it,          \* Iter of lib.rs over ls: [active, index]
    ls_out,         \* what the calls on ls_it returned, in call order
    cb_clone,       \* what the last cb.clone() gave: [tag, c]
    fx_clone        \* what the last fx.clone() gave: [tag, c]

cb_vars == <<cb, cb_ref, cb_fault, cb_ops, cb_it, cb_out>>

fx_vars == <<fx, fx_ref, fx_fault, fx_ops, fx_it, fx_out>>

ls_vars == <<ls, ls_fault, ls_ops>>

\* the conversion into a string wrapper and the panic message
hs_vars == <<tf, panic_msg>>

\* the iterators of the string wrappers
ws_vars == <<cs_it, fcs_it>>

\* the iterator of the CompactStrings of lib.rs
li_vars == <<ls_it, ls_out>>

\* the clones
cl_vars == <<cb_clone, fx_clone>>

vars == <<no_unsafe, little_endian, op, cb_vars, fx_vars, ls_vars, hs_vars, ws_vars, li_vars,
          cl_vars>>

-----------------------------------------------------------------------------
(* Bounds of the model *)

\* the most elements a container holds
MaxElems == 3

\* the most mutating calls (push, clear, ignore, remove) made on one container
MaxOps == 6

\* the most calls made on one iterator
MaxIterCalls == 5

\* the byte strings pushed into CompactBytestrings
CBInputs == { <<>>, <<1>>, <<2, 3>> }

-----------------------------------------------------------------------------
(* Option<&[u8]>, and the outcome of a read outside the buffer *)

Some(b) == [tag |-> "Some", bytes |-> b]

None == [tag |-> "None", bytes |-> <<>>]

\* get_unchecked(range) with the range outside the slice is undefined
\* behaviour: no result is guaranteed
Undefined == [tag |-> "UB", bytes |-> <<>>]

\* no conversion was asked for: the caller owns its containers
TfIdle == [of |-> "none", result |-> "none", owner |-> "caller"]

\* try_from(value) took the container by value: Ok(Self(value)) hands it to
\* the wrapper, the early return of `?` drops it with the function's frame
TfDone(of, result) ==
    [of |-> of, result |-> result,
     owner |-> IF result = "Ok" THEN "wrapper" ELSE "dropped"]

-----------------------------------------------------------------------------
(* Vec and slice primitives, 0-based *)

\* s[a..b]
Slice(s, a, b) == SubSeq(s, a + 1, b)

\* Vec::remove(i): the vector without element i
VecRemove(s, i) == SubSeq(s, 1, i) \o SubSeq(s, i + 2, Len(s))

\* Vec::swap_remove(i): element i replaced by the last, the last dropped
VecSwapRemove(s, i) ==
    IF i = Len(s) - 1
    THEN SubSeq(s, 1, Len(s) - 1)
    ELSE SubSeq(s, 1, i) \o <<s[Len(s)]>> \o SubSeq(s, i + 2, Len(s) - 1)

\* slice::copy_within(src_start..src_end, dest), the length is unchanged
CopyWithin(s, src_start, src_end, dest) ==
    [k \in 1..Len(s) |->
        IF k - 1 >= dest /\ k - 1 < dest + (src_end - src_start)
        THEN s[k - dest + src_start]
        ELSE s[k]]

-----------------------------------------------------------------------------
(* CompactBytestrings *)

Metadata(start, len) == [start |-> start, len |-> len]

CBNew == [data |-> <<>>, meta |-> <<>>]

CBLen(c) == Len(c.meta)

CBIsEmpty(c) == CBLen(c) = 0

\* push that records every element at offset 0
CBPushOp_NoOffset(c, bytestr) ==
    [data |-> c.data \o bytestr,
     meta |-> Append(c.meta, Metadata(0, Len(bytestr)))]

CBPushOp(c, bytestr) ==
    [data |-> c.data \o bytestr,
     meta |-> Append(c.meta, Metadata(Len(c.data), Len(bytestr)))]

\* data.get(start..start + len) / data.get_unchecked(start..start + len)
CBRange(data, nu, m) ==
    IF m.start + m.len <= Len(data)
    THEN Some(Slice(data, m.start, m.start + m.len))
    ELSE IF nu THEN None ELSE Undefined

CBGetOp(c, nu, index) ==
    IF index >= Len(c.meta) THEN None ELSE CBRange(c.data, nu, c.meta[index + 1])

\* a &[u8] returned without Option
Ref(b) == [tag |-> "Ref", bytes |-> b]

\* get_unchecked that returns data[start..]
CBGetUncheckedOp_ToEnd(c, index) ==
    IF index >= Len(c.meta) THEN Undefined
    ELSE Ref(Slice(c.data, c.meta[index + 1].start, Len(c.data)))

\* get_unchecked(index), compiled in without no_unsafe only: no check of
\* index, no check of the range
CBGetUncheckedOp(c, index) ==
    IF index >= Len(c.meta) THEN Undefined
    ELSE LET m == c.meta[index + 1]
         IN  IF m.start + m.len <= Len(c.data)
             THEN Ref(Slice(c.data, m.start, m.start + m.len))
             ELSE Undefined

\* a clear that empties data and keeps meta
CBClearOp_DataOnly(c) == [c EXCEPT !.data = <<>>]

CBClearOp(c) == [data |-> <<>>, meta |-> <<>>]

\* an ignore that fills the place of the entry with the last entry
CBIgnoreOp_Swap(c, index) == [c EXCEPT !.meta = VecSwapRemove(@, index)]

CBIgnoreOp(c, index) == [c EXCEPT !.meta = VecRemove(@, index)]

\* remove(index) does not return normally: "overflow" when a start offset
\* would go below zero in the re-basing loop (a panic with overflow checks,
\* a wrapped offset without), "bounds" when the removed range does not lie
\* inside data (copy_within panics; the pointer copy is undefined behaviour)
CBRemoveFault(c, nu, index) ==
    LET m == c.meta[index + 1]
        rest == VecRemove(c.meta, index)
    IN  IF \E k \in (index + 1)..Len(rest) : rest[k].start < m.start
        THEN "overflow"
        ELSE IF m.start + m.len > Len(c.data) THEN "bounds" ELSE "none"

\* a remove that leaves the later start offsets as they were
CBRemoveOp_NoRebase(c, nu, index) ==
    LET m == c.meta[index + 1]
    IN  [meta |-> VecRemove(c.meta, index),
         data |-> Slice(c.data, 0, m.start) \o Slice(c.data, m.start + m.len, Len(c.data))]

CBRemoveOp(c, nu, index) ==
    LET m == c.meta[index + 1]
        start == m.start
        len == m.len
        inner_len == Len(c.data)
        rest == VecRemove(c.meta, index)
        rebased == [k \in 1..Len(rest) |->
                      IF k - 1 >= index
                      THEN [rest[k] EXCEPT !.start = @ - start]
                      ELSE rest[k]]
    IN  [meta |-> rebased,
         data |-> IF nu
                  THEN CopyWithin(c.data, start + len, inner_len, start)
                  ELSE Slice(c.data, 0, start) \o Slice(c.data, start + len, inner_len)]

-----------------------------------------------------------------------------
(* Iter over CompactBytestrings: the data slice and a slice::Iter over meta, *)
(* which is the window meta[front..back)                                     *)

CBIterNew(c) == [active |-> TRUE, front |-> 0, back |-> CBLen(c)]

CBIterIdle == [active |-> FALSE, front |-> 0, back |-> 0]

CBIterLen(it) == it.back - it.front

CBIterNextItem(c, nu, it) ==
    IF it.front >= it.back THEN None ELSE CBRange(c.data, nu, c.meta[it.front + 1])

CBIterNextState(it) ==
    IF it.front >= it.back THEN it ELSE [it EXCEPT !.front = @ + 1]

\* a next_back that reads the element at the front cursor
CBIterNextBackItem_Front(c, nu, it) == CBIterNextItem(c, nu, it)

CBIterNextBackItem(c, nu, it) ==
    IF it.front >= it.back THEN None ELSE CBRange(c.data, nu, c.meta[it.back])

CBIterNextBackState(it) ==
    IF it.front >= it.back THEN it ELSE [it EXCEPT !.back = @ - 1]

-----------------------------------------------------------------------------
(* Actions on CompactBytestrings *)

Op(name, index) == [name |-> name, index |-> index]

CBOk == cb_fault = "none" /\ ~cb_it.active

\* a mutating call: the container is usable and not borrowed by an iterator
CBMutable == CBOk /\ cb_ops < MaxOps

CBPush(s) ==
    /\ CBMutable
    /\ CBLen(cb) < MaxElems
    /\ cb' = CBPushOp(cb, s)
    /\ cb_ref' = Append(cb_ref, s)
    /\ op' = Op("push", 0)
    /\ cb_ops' = cb_ops + 1
    /\ UNCHANGED <<cl_vars, li_vars, ws_vars, hs_vars, fx_vars, ls_vars, no_unsafe, little_endian, cb_fault, cb_it, cb_out>>

CBClear ==
    /\ CBMutable
    /\ cb' = CBClearOp(cb)
    /\ cb_ref' = <<>>
    /\ op' = Op("clear", 0)
    /\ cb_ops' = cb_ops + 1
    /\ UNCHANGED <<cl_vars, li_vars, ws_vars, hs_vars, fx_vars, ls_vars, no_unsafe, little_endian, cb_fault, cb_it, cb_out>>

CBIgnore(index) ==
    /\ CBMutable
    /\ index < CBLen(cb)
    /\ cb' = CBIgnoreOp(cb, index)
    /\ cb_ref' = VecRemove(cb_ref, index)
    /\ op' = Op("ignore", index)
    /\ cb_ops' = cb_ops + 1
    /\ UNCHANGED <<cl_vars, li_vars, ws_vars, hs_vars, fx_vars, ls_vars, no_unsafe, little_endian, cb_fault, cb_it, cb_out>>

CBRemove(index) ==
    /\ CBMutable
    /\ index < CBLen(cb)
    /\ CBRemoveFault(cb, no_unsafe, index) = "none"
    /\ cb' = CBRemoveOp(cb, no_unsafe, index)
    /\ cb_ref' = VecRemove(cb_ref, index)
    /\ op' = Op("remove", index)
    /\ cb_ops' = cb_ops + 1
    /\ UNCHANGED <<cl_vars, li_vars, ws_vars, hs_vars, fx_vars, ls_vars, no_unsafe, little_endian, cb_fault, cb_it, cb_out>>

CBRemoveFails(index) ==
    /\ CBMutable
    /\ index < CBLen(cb)
    /\ CBRemoveFault(cb, no_unsafe, index) # "none"
    /\ cb_fault' = CBRemoveFault(cb, no_unsafe, index)
    /\ op' = Op("remove", index)
    /\ cb_ops' = cb_ops + 1
    /\ UNCHANGED <<cl_vars, li_vars, ws_vars, hs_vars, fx_vars, ls_vars, no_unsafe, little_endian, cb, cb_ref, cb_it, cb_out>>

CBIter ==
    /\ CBOk
    /\ cb_it' = CBIterNew(cb)
    /\ cb_out' = <<>>
    /\ op' = Op("iter", 0)
    /\ UNCHANGED <<cl_vars, li_vars, ws_vars, hs_vars, fx_vars, ls_vars, no_unsafe, little_endian, cb, cb_ref, cb_fault, cb_ops>>

CBIterNext ==
    /\ cb_it.active
    /\ Len(cb_out) < MaxIterCalls
    /\ cb_out' = Append(cb_out, [side |-> "front", item |-> CBIterNextItem(cb, no_unsafe, cb_it)])
    /\ cb_it' = CBIterNextState(cb_it)
    /\ op' = Op("next", 0)
    /\ UNCHANGED <<cl_vars, li_vars, ws_vars, hs_vars, fx_vars, ls_vars, no_unsafe, little_endian, cb, cb_ref, cb_fault, cb_ops>>

CBIterNextBack ==
    /\ cb_it.active
    /\ Len(cb_out) < MaxIterCalls
    /\ cb_out' = Append(cb_out, [side |-> "back", item |-> CBIterNextBackItem(cb, no_unsafe, cb_it)])
    /\ cb_it' = CBIterNextBackState(cb_it)
    /\ op' = Op("next_back", 0)
    /\ UNCHANGED <<cl_vars, li_vars, ws_vars, hs_vars, fx_vars, ls_vars, no_unsafe, little_endian, cb, cb_ref, cb_fault, cb_ops>>

CBIterDrop ==
    /\ cb_it.active
    /\ cb_it' = CBIterIdle
    /\ cb_out' = <<>>
    /\ op' = Op("drop", 0)
    /\ UNCHANGED <<cl_vars, li_vars, ws_vars, hs_vars, fx_vars, ls_vars, no_unsafe, little_endian, cb, cb_ref, cb_fault, cb_ops>>

-----------------------------------------------------------------------------
(* FixedCompactBytestrings: machine words and their bytes in memory *)

\* const BYTES: usize = (usize::BITS / 8) as usize, on a 64-bit target
BYTES == 8

\* a byte string of n bytes first, first + 1, ...
Run(first, n) == [k \in 1..n |-> first + k - 1]

\* the byte strings pushed into FixedCompactBytestrings: empty, short,
\* one byte less than a word, exactly a word, and one of 128 bytes
FxInputs == { <<>>, <<1, 2>>, Run(21, BYTES - 1), Run(31, BYTES), Run(0, 128) }

RECURSIVE Digits(_, _)
\* the k base-256 digits of n, least significant first
Digits(n, k) == IF k = 0 THEN <<>> ELSE <<n % 256>> \o Digits(n \div 256, k - 1)

Reverse(s) == [k \in 1..Len(s) |-> s[Len(s) + 1 - k]]

\* a slot is kept as bytemuck::bytes_of shows it: BYTES bytes in memory
\* order. LeDigits is its value, least significant byte first.
LeDigits(w, le) == IF le THEN w ELSE Reverse(w)

\* the slot holding the usize n
UsizeSlot(n, le) == LeDigits(Digits(n, BYTES), le)

\* the value of a slot as far as the model can count: huge stands for a
\* value of 2^24 or more, which no buffer length of the model reaches
SlotValue(w, le) ==
    LET d == LeDigits(w, le)
    IN  [huge |-> \E k \in 4..BYTES : d[k] # 0,
         val |-> d[1] + 256 * d[2] + 65536 * d[3]]

Small(n) == [huge |-> FALSE, val |-> n]

RECURSIVE SubDigits(_, _)
\* digits d minus n, wrapping
SubDigits(d, n) ==
    IF d = <<>> THEN <<>>
    ELSE LET x == d[1] - (n % 256)
         IN  IF x >= 0
             THEN <<x>> \o SubDigits(Tail(d), n \div 256)
             ELSE <<x + 256>> \o SubDigits(Tail(d), (n \div 256) + 1)

RECURSIVE Borrow(_, _)
\* what is left to subtract after the last digit: non-zero on underflow
Borrow(d, n) ==
    IF d = <<>> THEN n
    ELSE Borrow(Tail(d), IF d[1] - (n % 256) >= 0 THEN n \div 256 ELSE (n \div 256) + 1)

\* *s -= len on a slot
SlotSub(w, len, le) == LeDigits(SubDigits(LeDigits(w, le), len), le)

SlotSubUnderflows(w, len, le) == Borrow(LeDigits(w, le), len) # 0

\* data[0] = 0b1000_0000 | (len << 4), data[i + 1] = b
InlineSlot(bytestr) ==
    <<128 + Len(bytestr) * 16>> \o bytestr \o [k \in 1..(BYTES - 1 - Len(bytestr)) |-> 0]

\* data[0] & 0b1000_1111 == 0b1000_0000
IsInline(w) == w[1] >= 128 /\ w[1] % 16 = 0

\* (data[0] & (0b111 << 4)) >> 4
InlineLen(w) == (w[1] \div 16) % 8

\* &data[1..=len]
InlineBytes(w) == SubSeq(w, 2, 1 + InlineLen(w))

-----------------------------------------------------------------------------
(* FixedCompactBytestrings *)

FxNew == [data |-> <<>>, starts |-> <<>>]

FxLen(c) == Len(c.starts)

FxIsEmpty(c) == FxLen(c) = 0

FxPushOp(c, le, bytestr) ==
    IF Len(bytestr) < BYTES
    THEN [c EXCEPT !.starts = Append(@, InlineSlot(bytestr))]
    ELSE [data |-> c.data \o bytestr,
          starts |-> Append(c.starts, UsizeSlot(Len(c.data), le))]

\* starts.iter().skip(from).find(not inline).unwrap_or(data_len), looking
\* no further than slot `to` (exclusive)
FxFindNext(starts, le, from, to, data_len) ==
    LET later == { k \in (from + 1)..to : ~IsInline(starts[k]) }
    IN  IF later = {} THEN Small(data_len)
        ELSE SlotValue(starts[CHOOSE k \in later : \A o \in later : k <= o], le)

\* data.get(start..end) / data.get_unchecked(start..end)
FxRange(data, nu, start, end) ==
    IF ~start.huge /\ ~end.huge /\ start.val <= end.val /\ end.val <= Len(data)
    THEN Some(Slice(data, start.val, end.val))
    ELSE IF nu THEN None ELSE Undefined

FxGetOp(c, nu, le, index) ==
    IF index >= Len(c.starts) THEN None
    ELSE LET w == c.starts[index + 1]
         IN  IF IsInline(w) THEN Some(InlineBytes(w))
             ELSE FxRange(c.data, nu, SlotValue(w, le),
                          FxFindNext(c.starts, le, index + 1, Len(c.starts), Len(c.data)))

\* get_unchecked(index), compiled in without no_unsafe only
FxGetUncheckedOp(c, le, index) ==
    IF index >= Len(c.starts) THEN Undefined
    ELSE LET w == c.starts[index + 1]
             start == SlotValue(w, le)
             next == FxFindNext(c.starts, le, index + 1, Len(c.starts), Len(c.data))
         IN  IF IsInline(w) THEN Ref(InlineBytes(w))
             ELSE IF ~start.huge /\ ~next.huge /\ start.val <= next.val
                     /\ next.val <= Len(c.data)
             THEN Ref(Slice(c.data, start.val, next.val))
             ELSE Undefined

FxClearOp(c) == [data |-> <<>>, starts |-> <<>>]

\* the exclusive end remove(index) computes for the removed offset slot:
\* the scan runs over starts after the slot was taken out, skip(index + 1)
FxRemoveNext(c, le, index) ==
    LET rest == VecRemove(c.starts, index)
    IN  FxFindNext(rest, le, index + 1, Len(rest), Len(c.data))

\* remove(index) of an offset slot does not return normally: "overflow" when
\* next - start or a slot's *s -= len goes below zero, "bounds" when
\* start + len lies beyond data
FxRemoveFault(c, nu, le, index) ==
    LET w == c.starts[index + 1]
        rest == VecRemove(c.starts, index)
        start == SlotValue(w, le)
        next == FxRemoveNext(c, le, index)
    IN  IF IsInline(w) THEN "none"
        ELSE IF start.huge \/ next.huge THEN "bounds"
        ELSE IF next.val < start.val THEN "overflow"
        ELSE IF \E k \in (index + 2)..Len(rest) :
                    SlotSubUnderflows(rest[k], next.val - start.val, le)
        THEN "overflow"
        ELSE IF next.val > Len(c.data) THEN "bounds" ELSE "none"

\* a remove that fills the place of an inline slot with the last slot
FxRemoveOp_SwapsInline(c, nu, le, index) ==
    [data |-> c.data, starts |-> VecSwapRemove(c.starts, index)]

FxRemoveOp(c, nu, le, index) ==
    LET w == c.starts[index + 1]
        rest == VecRemove(c.starts, index)
        inner_len == Len(c.data)
        start == SlotValue(w, le).val
        len == FxRemoveNext(c, le, index).val - start
        rebased == [k \in 1..Len(rest) |->
                      IF k - 1 >= index + 1 THEN SlotSub(rest[k], len, le) ELSE rest[k]]
    IN  IF IsInline(w) THEN [data |-> c.data, starts |-> rest]
        ELSE [starts |-> rebased,
              data |-> IF nu
                       THEN CopyWithin(c.data, start + len, inner_len, start)
                       ELSE Slice(c.data, 0, start) \o Slice(c.data, start + len, inner_len)]

-----------------------------------------------------------------------------
(* Iter over FixedCompactBytestrings: a view data[..data_len] that shrinks  *)
(* from the back, and a slice::Iter over starts, the window [front, back)   *)

FxIterNew(c) ==
    [active |-> TRUE, front |-> 0, back |-> FxLen(c), data_len |-> Len(c.data)]

FxIterIdle == [active |-> FALSE, front |-> 0, back |-> 0, data_len |-> 0]

FxIterLen(it) == it.back - it.front

FxIterNextItem(c, nu, le, it) ==
    IF it.front >= it.back THEN None
    ELSE LET w == c.starts[it.front + 1]
             view == Slice(c.data, 0, it.data_len)
         IN  IF IsInline(w) THEN Some(InlineBytes(w))
             ELSE FxRange(view, nu, SlotValue(w, le),
                          FxFindNext(c.starts, le, it.front + 1, it.back, it.data_len))

FxIterNextState(it) ==
    IF it.front >= it.back THEN it ELSE [it EXCEPT !.front = @ + 1]

\* the call did not return: a panic
Panicked == [tag |-> "Panic", bytes |-> <<>>]

\* data[0] & 0b1000_0000 != 0, the inline test of next_back
IsInlineBack(w) == w[1] >= 128

\* next_back(): the last slot of the window; an offset element is
\* data[start..], and &self.data[..*start] panics when start lies beyond data
FxIterNextBackItem(c, nu, le, it) ==
    IF it.front >= it.back THEN None
    ELSE LET w == c.starts[it.back]
             start == SlotValue(w, le)
             view == Slice(c.data, 0, it.data_len)
         IN  IF IsInlineBack(w) THEN Some(InlineBytes(w))
             ELSE IF ~start.huge /\ start.val <= it.data_len
             THEN Some(Slice(view, start.val, it.data_len))
             ELSE IF nu THEN Panicked ELSE Undefined

\* self.starts.next_back(), and self.data = &self.data[..*start] after an
\* offset element
FxIterNextBackState(c, le, it) ==
    IF it.front >= it.back THEN it
    ELSE LET w == c.starts[it.back]
             start == SlotValue(w, le)
         IN  IF IsInlineBack(w) THEN [it EXCEPT !.back = @ - 1]
             ELSE IF ~start.huge /\ start.val <= it.data_len
             THEN [it EXCEPT !.back = @ - 1, !.data_len = start.val]
             ELSE [it EXCEPT !.back = @ - 1]

\* nth(n): self.starts.nth(n)? steps over n slots, or empties the window and
\* returns None when fewer than n + 1 slots are left; the slot reached is then
\* read as next() reads it
FxIterNthItem(c, nu, le, it, n) ==
    IF it.front + n >= it.back THEN None
    ELSE LET at == it.front + n
             w == c.starts[at + 1]
             view == Slice(c.data, 0, it.data_len)
         IN  IF IsInline(w) THEN Some(InlineBytes(w))
             ELSE FxRange(view, nu, SlotValue(w, le),
                          FxFindNext(c.starts, le, at + 1, it.back, it.data_len))

\* an nth() that leaves the slot it returned in the window
FxIterNthState_StopsShort(it, n) ==
    IF it.front + n >= it.back THEN [it EXCEPT !.front = it.back]
    ELSE [it EXCEPT !.front = @ + n]

FxIterNthState(it, n) ==
    IF it.front + n >= it.back THEN [it EXCEPT !.front = it.back]
    ELSE [it EXCEPT !.front = @ + n + 1]

\* nth_back(n): fork is the window before the call; self.starts.nth_back(n)?
\* steps back over n slots; an inline slot returns at once; otherwise end is
\* data.len() for n = 0 and the slot *fork.nth_back(n - 1) read as a usize for
\* n > 0, the element is data[start..end], and &self.data[..*start] panics
\* when start lies beyond data
FxIterNthBackItem(c, nu, le, it, n) ==
    IF it.front + n >= it.back THEN None
    ELSE LET w == c.starts[it.back - n]
             start == SlotValue(w, le)
             end == IF n = 0 THEN Small(it.data_len)
                    ELSE SlotValue(c.starts[it.back - n + 1], le)
             view == Slice(c.data, 0, it.data_len)
             out == FxRange(view, nu, start, end)
         IN  IF IsInlineBack(w) THEN Some(InlineBytes(w))
             ELSE IF out.tag = "UB" THEN Undefined
             ELSE IF start.huge \/ start.val > it.data_len THEN Panicked
             ELSE out

\* the window ends before the slot reached; self.data = &self.data[..*start]
\* runs only after an offset slot
FxIterNthBackState(c, le, it, n) ==
    IF it.front + n >= it.back THEN [it EXCEPT !.back = it.front]
    ELSE LET w == c.starts[it.back - n]
             start == SlotValue(w, le)
         IN  IF IsInlineBack(w) THEN [it EXCEPT !.back = @ - n - 1]
             ELSE IF ~start.huge /\ start.val <= it.data_len
             THEN [it EXCEPT !.back = @ - n - 1, !.data_len = start.val]
             ELSE [it EXCEPT !.back = @ - n - 1]

-----------------------------------------------------------------------------
(* Actions on FixedCompactBytestrings *)

FxOk == fx_fault = "none" /\ ~fx_it.active

FxMutable == FxOk /\ fx_ops < MaxOps

FxPush(s) ==
    /\ FxMutable
    /\ FxLen(fx) < MaxElems
    /\ fx' = FxPushOp(fx, little_endian, s)
    /\ fx_ref' = Append(fx_ref, s)
    /\ fx_ops' = fx_ops + 1
    /\ op' = Op("push", 0)
    /\ UNCHANGED <<cl_vars, li_vars, ws_vars, hs_vars, cb_vars, ls_vars, no_unsafe, little_endian, fx_fault, fx_it, fx_out>>

FxClear ==
    /\ FxMutable
    /\ fx' = FxClearOp(fx)
    /\ fx_ref' = <<>>
    /\ fx_ops' = fx_ops + 1
    /\ op' = Op("clear", 0)
    /\ UNCHANGED <<cl_vars, li_vars, ws_vars, hs_vars, cb_vars, ls_vars, no_unsafe, little_endian, fx_fault, fx_it, fx_out>>

FxRemove(index) ==
    /\ FxMutable
    /\ index < FxLen(fx)
    /\ FxRemoveFault(fx, no_unsafe, little_endian, index) = "none"
    /\ fx' = FxRemoveOp(fx, no_unsafe, little_endian, index)
    /\ fx_ref' = VecRemove(fx_ref, index)
    /\ fx_ops' = fx_ops + 1
    /\ op' = Op("remove", index)
    /\ UNCHANGED <<cl_vars, li_vars, ws_vars, hs_vars, cb_vars, ls_vars, no_unsafe, little_endian, fx_fault, fx_it, fx_out>>

FxRemoveFails(index) ==
    /\ FxMutable
    /\ index < FxLen(fx)
    /\ FxRemoveFault(fx, no_unsafe, little_endian, index) # "none"
    /\ fx_fault' = FxRemoveFault(fx, no_unsafe, little_endian, index)
    /\ fx_ops' = fx_ops + 1
    /\ op' = Op("remove", index)
    /\ UNCHANGED <<cl_vars, li_vars, ws_vars, hs_vars, cb_vars, ls_vars, no_unsafe, little_endian, fx, fx_ref, fx_it, fx_out>>

FxIter ==
    /\ FxOk
    /\ fx_it' = FxIterNew(fx)
    /\ fx_out' = <<>>
    /\ op' = Op("iter", 0)
    /\ UNCHANGED <<cl_vars, li_vars, ws_vars, hs_vars, cb_vars, ls_vars, no_unsafe, little_endian, fx, fx_ref, fx_fault, fx_ops>>

\* no call on the iterator has panicked
FxIterUsable == IF fx_out = <<>> THEN TRUE ELSE fx_out[Len(fx_out)].item.tag # "Panic"

FxIterNext ==
    /\ fx_it.active
    /\ FxIterUsable
    /\ Len(fx_out) < MaxIterCalls
    /\ fx_out' = Append(fx_out, [side |-> "front",
                                 item |-> FxIterNextItem(fx, no_unsafe, little_endian, fx_it)])
    /\ fx_it' = FxIterNextState(fx_it)
    /\ op' = Op("next", 0)
    /\ UNCHANGED <<cl_vars, li_vars, ws_vars, hs_vars, cb_vars, ls_vars, no_unsafe, little_endian, fx, fx_ref, fx_fault, fx_ops>>

FxIterNextBack ==
    /\ fx_it.active
    /\ Len(fx_out) < MaxIterCalls
    /\ FxIterUsable
    /\ fx_out' = Append(fx_out, [side |-> "back",
                                 item |-> FxIterNextBackItem(fx, no_unsafe, little_endian, fx_it)])
    /\ fx_it' = FxIterNextBackState(fx, little_endian, fx_it)
    /\ op' = Op("next_back", 0)
    /\ UNCHANGED <<cl_vars, li_vars, ws_vars, hs_vars, cb_vars, ls_vars, no_unsafe, little_endian, fx, fx_ref, fx_fault, fx_ops>>

FxIterNth(n) ==
    /\ fx_it.active
    /\ FxIterUsable
    /\ Len(fx_out) < MaxIterCalls
    /\ fx_out' = Append(fx_out, [side |-> "front",
                                 item |-> FxIterNthItem(fx, no_unsafe, little_endian, fx_it, n)])
    /\ fx_it' = FxIterNthState(fx_it, n)
    /\ op' = Op("nth", n)
    /\ UNCHANGED <<cl_vars, li_vars, ws_vars, hs_vars, cb_vars, ls_vars, no_unsafe, little_endian, fx, fx_ref, fx_fault, fx_ops>>

FxIterNthBack(n) ==
    /\ fx_it.active
    /\ FxIterUsable
    /\ Len(fx_out) < MaxIterCalls
    /\ fx_out' = Append(fx_out, [side |-> "back",
                                 item |-> FxIterNthBackItem(fx, no_unsafe, little_endian, fx_it, n)])
    /\ fx_it' = FxIterNthBackState(fx, little_endian, fx_it, n)
    /\ op' = Op("nth_back", n)
    /\ UNCHANGED <<cl_vars, li_vars, ws_vars, hs_vars, cb_vars, ls_vars, no_unsafe, little_endian, fx, fx_ref, fx_fault, fx_ops>>

FxIterDrop ==
    /\ fx_it.active
    /\ fx_it' = FxIterIdle
    /\ fx_out' = <<>>
    /\ op' = Op("drop", 0)
    /\ UNCHANGED <<cl_vars, li_vars, ws_vars, hs_vars, cb_vars, ls_vars, no_unsafe, little_endian, fx, fx_ref, fx_fault, fx_ops>>

-----------------------------------------------------------------------------
(* CompactStrings of lib.rs: data and a Vec of (start, len) tuples *)

\* the strings pushed into CompactStrings, as their UTF-8 bytes
LsInputs == { <<>>, <<1>>, <<2, 3>> }

LsNew == [data |-> <<>>, meta |-> <<>>]

LsLen(c) == Len(c.meta)

LsPushOp(c, bytes) ==
    [data |-> c.data \o bytes,
     meta |-> Append(c.meta, <<Len(c.data), Len(bytes)>>)]

\* self.data.get(start..start + len)?
LsGetOp(c, index) ==
    IF index >= Len(c.meta) THEN None
    ELSE LET start == c.meta[index + 1][1]
             len == c.meta[index + 1][2]
         IN  IF start + len <= Len(c.data)
             THEN Some(Slice(c.data, start, start + len))
             ELSE None

LsClearOp(c) == [data |-> <<>>, meta |-> <<>>]

LsIgnoreOp(c, index) == [c EXCEPT !.meta = VecRemove(@, index)]

\* a swap_ignore that shifts the later entries down instead
LsSwapIgnoreOp_Shift(c, index) == [c EXCEPT !.meta = VecRemove(@, index)]

LsSwapIgnoreOp(c, index) == [c EXCEPT !.meta = VecSwapRemove(@, index)]

\* what remove and swap_remove do once the entry is out of meta (rest):
\* *idx -= len for the entries from position index on, then
\* copy_within(start + len.., start) and truncate(inner_len - len)
LsSpliceFault(c, rest, removed, index) ==
    IF \E k \in (index + 1)..Len(rest) : rest[k][1] < removed[2]
    THEN "overflow"
    ELSE IF removed[1] + removed[2] > Len(c.data) THEN "bounds" ELSE "none"

LsSplice(c, rest, removed, index) ==
    LET start == removed[1]
        len == removed[2]
    IN  [meta |-> [k \in 1..Len(rest) |->
                     IF k - 1 >= index THEN <<rest[k][1] - len, rest[k][2]>> ELSE rest[k]],
         data |-> Slice(c.data, 0, start) \o Slice(c.data, start + len, Len(c.data))]

LsRemoveFault(c, index) ==
    LsSpliceFault(c, VecRemove(c.meta, index), c.meta[index + 1], index)

LsRemoveOp(c, index) ==
    LsSplice(c, VecRemove(c.meta, index), c.meta[index + 1], index)

LsSwapRemoveFault(c, index) ==
    LsSpliceFault(c, VecSwapRemove(c.meta, index), c.meta[index + 1], index)

LsSwapRemoveOp(c, index) ==
    LsSplice(c, VecSwapRemove(c.meta, index), c.meta[index + 1], index)

-----------------------------------------------------------------------------
(* Actions on the CompactStrings of lib.rs *)

LsMutable == ls_fault = "none" /\ ls_ops < MaxOps

LsPush(s) ==
    /\ LsMutable
    /\ LsLen(ls) < MaxElems
    /\ ls' = LsPushOp(ls, s)
    /\ ls_ops' = ls_ops + 1
    /\ op' = Op("push", 0)
    /\ UNCHANGED <<cl_vars, li_vars, ws_vars, hs_vars, cb_vars, fx_vars, no_unsafe, little_endian, ls_fault>>

LsClear ==
    /\ LsMutable
    /\ ls' = LsClearOp(ls)
    /\ ls_ops' = ls_ops + 1
    /\ op' = Op("clear", 0)
    /\ UNCHANGED <<cl_vars, li_vars, ws_vars, hs_vars, cb_vars, fx_vars, no_unsafe, little_endian, ls_fault>>

LsIgnore(index) ==
    /\ LsMutable
    /\ index < LsLen(ls)
    /\ ls' = LsIgnoreOp(ls, index)
    /\ ls_ops' = ls_ops + 1
    /\ op' = Op("ignore", index)
    /\ UNCHANGED <<cl_vars, li_vars, ws_vars, hs_vars, cb_vars, fx_vars, no_unsafe, little_endian, ls_fault>>

LsSwapIgnore(index) ==
    /\ LsMutable
    /\ index < LsLen(ls)
    /\ ls' = LsSwapIgnoreOp(ls, index)
    /\ ls_ops' = ls_ops + 1
    /\ op' = Op("swap_ignore", index)
    /\ UNCHANGED <<cl_vars, li_vars, ws_vars, hs_vars, cb_vars, fx_vars, no_unsafe, little_endian, ls_fault>>

LsRemove(index) ==
    /\ LsMutable
    /\ index < LsLen(ls)
    /\ LsRemoveFault(ls, index) = "none"
    /\ ls' = LsRemoveOp(ls, index)
    /\ ls_ops' = ls_ops + 1
    /\ op' = Op("remove", index)
    /\ UNCHANGED <<cl_vars, li_vars, ws_vars, hs_vars, cb_vars, fx_vars, no_unsafe, little_endian, ls_fault>>

LsRemoveFails(index) ==
    /\ LsMutable
    /\ index < LsLen(ls)
    /\ LsRemoveFault(ls, index) # "none"
    /\ ls_fault' = LsRemoveFault(ls, index)
    /\ ls_ops' = ls_ops + 1
    /\ op' = Op("remove", index)
    /\ UNCHANGED <<cl_vars, li_vars, ws_vars, hs_vars, cb_vars, fx_vars, no_unsafe, little_endian, ls>>

LsSwapRemove(index) ==
    /\ LsMutable
    /\ index < LsLen(ls)
    /\ LsSwapRemoveFault(ls, index) = "none"
    /\ ls' = LsSwapRemoveOp(ls, index)
    /\ ls_ops' = ls_ops + 1
    /\ op' = Op("swap_remove", index)
    /\ UNCHANGED <<cl_vars, li_vars, ws_vars, hs_vars, cb_vars, fx_vars, no_unsafe, little_endian, ls_fault>>

LsSwapRemoveFails(index) ==
    /\ LsMutable
    /\ index < LsLen(ls)
    /\ LsSwapRemoveFault(ls, index) # "none"
    /\ ls_fault' = LsSwapRemoveFault(ls, index)
    /\ ls_ops' = ls_ops + 1
    /\ op' = Op("swap_remove", index)
    /\ UNCHANGED <<cl_vars, li_vars, ws_vars, hs_vars, cb_vars, fx_vars, no_unsafe, little_endian, ls>>

\* Iter::new(inner) of lib.rs: Self { inner, index: 0 }
LsIterNew == [active |-> TRUE, index |-> 0]

LsIterIdle == [active |-> FALSE, index |-> 0]

\* Iter::next of lib.rs: let out = self.inner.get(self.index); self.index += 1; out
LsIterNextItem(c, it) == LsGetOp(c, it.index)

LsIterNextState(it) == [it EXCEPT !.index = @ + 1]

\* ExactSizeIterator::len of lib.rs: self.inner.meta.len()
LsIterLen(c, it) == Len(c.meta)

\* (&ls).into_iter(); the borrow keeps ls from being changed until the drop
LsIter ==
    /\ ls_fault = "none"
    /\ ~ls_it.active
    /\ ls_it' = LsIterNew
    /\ ls_out' = <<>>
    /\ op' = Op("iter", 0)
    /\ UNCHANGED <<cl_vars, ws_vars, hs_vars, cb_vars, fx_vars, ls_vars, no_unsafe, little_endian>>

LsIterNext ==
    /\ ls_it.active
    /\ Len(ls_out) < MaxIterCalls
    /\ ls_out' = Append(ls_out, [side |-> "front", item |-> LsIterNextItem(ls, ls_it)])
    /\ ls_it' = LsIterNextState(ls_it)
    /\ op' = Op("next", 0)
    /\ UNCHANGED <<cl_vars, ws_vars, hs_vars, cb_vars, fx_vars, ls_vars, no_unsafe, little_endian>>

LsIterDrop ==
    /\ ls_it.active
    /\ ls_it' = LsIterIdle
    /\ ls_out' = <<>>
    /\ op' = Op("drop", 0)
    /\ UNCHANGED <<cl_vars, ws_vars, hs_vars, cb_vars, fx_vars, ls_vars, no_unsafe, little_endian>>


-----------------------------------------------------------------------------
(* UTF-8, and CompactStrings, the wrapper CompactStrings(CompactBytestrings) *)

\* a continuation byte, 0b10xx_xxxx
IsCont(b) == b >= 128 /\ b <= 191

\* the length of the sequence a first byte announces, 0 for a byte that can
\* start none (a continuation byte, 0xC0, 0xC1, 0xF5 and above)
Utf8Width(b) ==
    IF b < 128 THEN 1
    ELSE IF b >= 194 /\ b <= 223 THEN 2
    ELSE IF b >= 224 /\ b <= 239 THEN 3
    ELSE IF b >= 240 /\ b <= 244 THEN 4
    ELSE 0

\* the byte after a first byte: no overlong form, no surrogate, nothing
\* above U+10FFFF
Utf8Second(first, b) ==
    /\ IsCont(b)
    /\ first = 224 => b >= 160
    /\ first = 237 => b <= 159
    /\ first = 240 => b >= 144
    /\ first = 244 => b <= 143

\* core::str::from_utf8(s).is_ok(): every first byte is followed by its
\* continuation bytes, and every continuation byte belongs to a first byte
Utf8Valid(s) ==
    \A k \in 1..Len(s) :
        LET w == Utf8Width(s[k])
        IN  IF w >= 1
            THEN /\ k + w - 1 <= Len(s)
                 /\ w >= 2 => Utf8Second(s[k], s[k + 1])
                 /\ \A j \in (k + 2)..(k + w - 1) : IsCont(s[j])
            ELSE /\ IsCont(s[k])
                 /\ \E d \in 1..3 : k - d >= 1 /\ Utf8Width(s[k - d]) > d

\* the strings pushed into the wrapper, as their UTF-8 bytes: "", "a", "é"
CSInputs == { <<>>, <<97>>, <<195, 169>> }

\* self.0.get(index)?, then from_utf8_unchecked: a &str over bytes that are
\* not UTF-8 is undefined behaviour
CSGetOp(c, nu, index) ==
    LET r == CBGetOp(c, nu, index)
    IN  IF r.tag = "Some" /\ ~Utf8Valid(r.bytes) THEN Undefined ELSE r

\* self.0.push(string.as_bytes())
CSPush(s) == CBPush(s)

\* self.0.ignore(index)
CSIgnore(index) == CBIgnore(index)

\* self.0.remove(index)
CSRemove(index) == CBRemove(index)

CSRemoveFails(index) == CBRemoveFails(index)

\* Iter::new(inner): Self { inner, index: 0 }
CSIterNew == [active |-> TRUE, index |-> 0]

CSIterIdle == [active |-> FALSE, index |-> 0]

\* next(): let out = self.inner.get(self.index); self.index += 1; out
CSIterNextItem(c, nu, it) == CSGetOp(c, nu, it.index)

CSIterNextState(it) == [it EXCEPT !.index = @ + 1]

\* len(): self.inner.len().saturating_sub(self.index)
CSIterLen(c, it) == IF CBLen(c) >= it.index THEN CBLen(c) - it.index ELSE 0

-----------------------------------------------------------------------------
(* FixedCompactStrings(FixedCompactBytestrings) and the TryFrom conversions *)

\* self.0.get(index)?, then from_utf8(bytes).ok() with no_unsafe and
\* from_utf8_unchecked without
FCSGetOp(c, nu, le, index) ==
    LET r == FxGetOp(c, nu, le, index)
    IN  IF r.tag = "Some" /\ ~Utf8Valid(r.bytes)
        THEN IF nu THEN None ELSE Undefined
        ELSE r

\* the byte strings pushed into a CompactBytestrings before a conversion:
\* "a", "é" and the lone byte 0xFF
TfCBInputs == { <<97>>, <<195, 169>>, <<255>> }

\* the byte strings pushed into a FixedCompactBytestrings before a conversion
TfFxInputs == (FxInputs \ { <<1, 2>> }) \cup { <<255>> }

RECURSIVE CBTryFromScan(_, _, _)
\* a conversion that validates the first element only
CBTryFromScan_FirstOnly(c, nu, it) ==
    LET item == CBIterNextItem(c, nu, it)
    IN  IF item.tag = "None" THEN "Ok"
        ELSE IF item.tag = "UB" THEN "UB"
        ELSE IF ~Utf8Valid(item.bytes) THEN "Err" ELSE "Ok"

\* for bstr in &value { from_utf8(bstr)? } Ok(Self(value))
CBTryFromScan(c, nu, it) ==
    LET item == CBIterNextItem(c, nu, it)
    IN  IF item.tag = "None" THEN "Ok"
        ELSE IF item.tag = "UB" THEN "UB"
        ELSE IF ~Utf8Valid(item.bytes) THEN "Err"
        ELSE CBTryFromScan(c, nu, CBIterNextState(it))

RECURSIVE FxTryFromScan(_, _, _, _)
\* for bstr in &value { from_utf8(bstr)? } Ok(Self(value))
FxTryFromScan(c, nu, le, it) ==
    LET item == FxIterNextItem(c, nu, le, it)
    IN  IF item.tag = "None" THEN "Ok"
        ELSE IF item.tag = "UB" THEN "UB"
        ELSE IF ~Utf8Valid(item.bytes) THEN "Err"
        ELSE FxTryFromScan(c, nu, le, FxIterNextState(it))

\* CompactStrings::try_from(cb)
CBTryFrom ==
    /\ CBOk
    /\ tf = TfIdle
    /\ tf' = TfDone("cb", CBTryFromScan(cb, no_unsafe, CBIterNew(cb)))
    /\ op' = Op("try_from", 0)
    /\ UNCHANGED <<cl_vars, li_vars, ws_vars, cb_vars, fx_vars, ls_vars, no_unsafe, little_endian, panic_msg>>

\* FixedCompactStrings::try_from(fx)
FxTryFrom ==
    /\ FxOk
    /\ tf = TfIdle
    /\ tf' = TfDone("fx", FxTryFromScan(fx, no_unsafe, little_endian, FxIterNew(fx)))
    /\ op' = Op("try_from", 0)
    /\ UNCHANGED <<cl_vars, li_vars, ws_vars, cb_vars, fx_vars, ls_vars, no_unsafe, little_endian, panic_msg>>

\* from_utf8_maybe_checked under and_then: from_utf8(bytes).ok() with
\* no_unsafe, from_utf8_unchecked without
FCSMaybeChecked(item, nu) ==
    IF item.tag = "Some" /\ ~Utf8Valid(item.bytes)
    THEN IF nu THEN None ELSE Undefined
    ELSE item

\* self.0.next().and_then(Self::from_utf8_maybe_checked)
FCSIterNextItem(c, nu, le, it) == FCSMaybeChecked(FxIterNextItem(c, nu, le, it), nu)

\* self.0.next_back().and_then(Self::from_utf8_maybe_checked)
FCSIterNextBackItem(c, nu, le, it) == FCSMaybeChecked(FxIterNextBackItem(c, nu, le, it), nu)

\* len(): self.0.len()
FCSIterLen(it) == FxIterLen(it)

-----------------------------------------------------------------------------
(* Clone *)

RECURSIVE CBCloneLoop(_, _, _, _)
\* for bytes in self.iter() { meta.push(Metadata { start: data.len(),
\* len: bytes.len() }); data.extend_from_slice(bytes) }
CBCloneLoop(c, nu, it, acc) ==
    LET item == CBIterNextItem(c, nu, it)
    IN  IF item.tag = "None" THEN [tag |-> "Ok", c |-> acc]
        ELSE IF item.tag = "UB" THEN [tag |-> "UB", c |-> CBNew]
        ELSE CBCloneLoop(c, nu, CBIterNextState(it),
                         [meta |-> Append(acc.meta, Metadata(Len(acc.data), Len(item.bytes))),
                          data |-> acc.data \o item.bytes])

\* Clone for CompactBytestrings
CBCloneOp(c, nu) == CBCloneLoop(c, nu, CBIterNew(c), CBNew)

RECURSIVE DigitsSub(_, _, _)
\* a - b on two usize values given least significant byte first, wrapping
DigitsSub(a, b, borrow) ==
    IF a = <<>> THEN <<>>
    ELSE LET x == a[1] - b[1] - borrow
         IN  IF x >= 0 THEN <<x>> \o DigitsSub(Tail(a), Tail(b), 0)
             ELSE <<x + 256>> \o DigitsSub(Tail(a), Tail(b), 1)

\* a < b as usize values
UsizeLess(a, b, le) ==
    LET x == LeDigits(a, le)
        y == LeDigits(b, le)
    IN  \E k \in 1..BYTES : x[k] < y[k] /\ \A j \in (k + 1)..BYTES : x[j] = y[j]

\* Vec::with_capacity(self.starts.windows(2).map(|s| s[1] - s[0]).sum()):
\* "overflow" when a slot is below the slot before it (s[1] - s[0] panics
\* with overflow checks and wraps without), "capacity" when the sum, the
\* last slot minus the first, is more than a buffer can hold
FxCloneFault(c, le) ==
    LET n == Len(c.starts)
    IN  IF \E k \in 1..(n - 1) : UsizeLess(c.starts[k + 1], c.starts[k], le)
        THEN "overflow"
        ELSE IF n >= 2
                /\ SlotValue(DigitsSub(LeDigits(c.starts[n], le),
                                       LeDigits(c.starts[1], le), 0), TRUE).huge
        THEN "capacity"
        ELSE "none"

RECURSIVE FxCloneLoop(_, _, _, _, _)
\* for bytes in self { meta.push(bytes.len()); data.extend_from_slice(bytes) }
FxCloneLoop(c, nu, le, it, acc) ==
    LET item == FxIterNextItem(c, nu, le, it)
    IN  IF item.tag = "None" THEN [tag |-> "Ok", c |-> acc]
        ELSE IF item.tag = "UB" THEN [tag |-> "UB", c |-> FxNew]
        ELSE FxCloneLoop(c, nu, le, FxIterNextState(it),
                         [starts |-> Append(acc.starts, UsizeSlot(Len(item.bytes), le)),
                          data |-> acc.data \o item.bytes])

\* Clone for FixedCompactBytestrings, which #[derive(Clone)] on
\* FixedCompactStrings calls for its only field
FxCloneOp(c, nu, le) ==
    IF FxCloneFault(c, le) # "none" THEN [tag |-> "Panic", c |-> FxNew]
    ELSE FxCloneLoop(c, nu, le, FxIterNew(c), FxNew)

\* cb.clone()
CBClone ==
    /\ cb_fault = "none"
    /\ cb_clone' = CBCloneOp(cb, no_unsafe)
    /\ op' = Op("clone", 0)
    /\ UNCHANGED <<li_vars, ws_vars, hs_vars, cb_vars, fx_vars, ls_vars, no_unsafe,
                   little_endian, fx_clone>>

\* fx.clone()
FxClone ==
    /\ fx_fault = "none"
    /\ fx_clone' = FxCloneOp(fx, no_unsafe, little_endian)
    /\ op' = Op("clone", 0)
    /\ UNCHANGED <<li_vars, ws_vars, hs_vars, cb_vars, fx_vars, ls_vars, no_unsafe,
                   little_endian, cb_clone>>

-----------------------------------------------------------------------------
(* Actions on the iterators of the string wrappers *)

\* no iterator borrows a wrapper
NoWrapperIter == ~cs_it.active /\ ~fcs_it.active

\* CompactStrings(cb).iter()
CSIter ==
    /\ CBOk
    /\ NoWrapperIter
    /\ cs_it' = CSIterNew
    /\ cb_out' = <<>>
    /\ op' = Op("iter", 0)
    /\ UNCHANGED <<cl_vars, li_vars, hs_vars, fx_vars, ls_vars, no_unsafe, little_endian, cb, cb_ref,
                   cb_fault, cb_ops, cb_it, fcs_it>>

CSIterNext ==
    /\ cs_it.active
    /\ Len(cb_out) < MaxIterCalls
    /\ cb_out' = Append(cb_out, [side |-> "front",
                                 item |-> CSIterNextItem(cb, no_unsafe, cs_it)])
    /\ cs_it' = CSIterNextState(cs_it)
    /\ op' = Op("next", 0)
    /\ UNCHANGED <<cl_vars, li_vars, hs_vars, fx_vars, ls_vars, no_unsafe, little_endian, cb, cb_ref,
                   cb_fault, cb_ops, cb_it, fcs_it>>

CSIterDrop ==
    /\ cs_it.active
    /\ cs_it' = CSIterIdle
    /\ cb_out' = <<>>
    /\ op' = Op("drop", 0)
    /\ UNCHANGED <<cl_vars, li_vars, hs_vars, fx_vars, ls_vars, no_unsafe, little_endian, cb, cb_ref,
                   cb_fault, cb_ops, cb_it, fcs_it>>

\* FixedCompactStrings(fx).iter(): Self(inner.0.iter())
FCSIter ==
    /\ FxOk
    /\ NoWrapperIter
    /\ fcs_it' = FxIterNew(fx)
    /\ fx_out' = <<>>
    /\ op' = Op("iter", 0)
    /\ UNCHANGED <<cl_vars, li_vars, hs_vars, cb_vars, ls_vars, no_unsafe, little_endian, fx, fx_ref,
                   fx_fault, fx_ops, fx_it, cs_it>>

FCSIterNext ==
    /\ fcs_it.active
    /\ FxIterUsable
    /\ Len(fx_out) < MaxIterCalls
    /\ fx_out' = Append(fx_out, [side |-> "front",
                                 item |-> FCSIterNextItem(fx, no_unsafe, little_endian, fcs_it)])
    /\ fcs_it' = FxIterNextState(fcs_it)
    /\ op' = Op("next", 0)
    /\ UNCHANGED <<cl_vars, li_vars, hs_vars, cb_vars, ls_vars, no_unsafe, little_endian, fx, fx_ref,
                   fx_fault, fx_ops, fx_it, cs_it>>

FCSIterNextBack ==
    /\ fcs_it.active
    /\ FxIterUsable
    /\ Len(fx_out) < MaxIterCalls
    /\ fx_out' = Append(fx_out, [side |-> "back",
                                 item |-> FCSIterNextBackItem(fx, no_unsafe, little_endian, fcs_it)])
    /\ fcs_it' = FxIterNextBackState(fx, little_endian, fcs_it)
    /\ op' = Op("next_back", 0)
    /\ UNCHANGED <<cl_vars, li_vars, hs_vars, cb_vars, ls_vars, no_unsafe, little_endian, fx, fx_ref,
                   fx_fault, fx_ops, fx_it, cs_it>>

FCSIterDrop ==
    /\ fcs_it.active
    /\ fcs_it' = FxIterIdle
    /\ fx_out' = <<>>
    /\ op' = Op("drop", 0)
    /\ UNCHANGED <<cl_vars, li_vars, hs_vars, cb_vars, ls_vars, no_unsafe, little_endian, fx, fx_ref,
                   fx_fault, fx_ops, fx_it, cs_it>>

-----------------------------------------------------------------------------
(* Extend and PartialEq of both engines *)

RECURSIVE CBExtend(_, _)
\* for s in iter { self.push(&s) }
CBExtend(c, strs) ==
    IF strs = <<>> THEN c
    ELSE CBExtend(CBPushOp(c, Head(strs)), Tail(strs))

RECURSIVE FxExtend(_, _, _)
\* for s in iter { self.push(&s) }
FxExtend(c, le, strs) ==
    IF strs = <<>> THEN c
    ELSE FxExtend(FxPushOp(c, le, Head(strs)), le, Tail(strs))

RECURSIVE CBEqFrom(_, _, _, _)
\* for idx in 0..len { if self[idx] != other[idx] { return false } } true,
\* where self[idx] is self.get(idx).unwrap()
CBEqFrom(a, b, nu, idx) ==
    LET x == CBGetOp(a, nu, idx)
        y == CBGetOp(b, nu, idx)
    IN  IF idx >= CBLen(a) THEN "true"
        ELSE IF x.tag = "UB" \/ (x.tag = "Some" /\ y.tag = "UB") THEN "UB"
        ELSE IF x.tag = "None" \/ y.tag = "None" THEN "panic"
        ELSE IF x.bytes # y.bytes THEN "false"
        ELSE CBEqFrom(a, b, nu, idx + 1)

\* an eq that compares the fields, as #[derive(PartialEq)] would
CBEq_Derived(a, b, nu) == IF a = b THEN "true" ELSE "false"

\* PartialEq::eq for CompactBytestrings
CBEq(a, b, nu) ==
    IF CBLen(a) # CBLen(b) THEN "false" ELSE CBEqFrom(a, b, nu, 0)

RECURSIVE FxEqFrom(_, _, _, _, _)
FxEqFrom(a, b, nu, le, idx) ==
    LET x == FxGetOp(a, nu, le, idx)
        y == FxGetOp(b, nu, le, idx)
    IN  IF idx >= FxLen(a) THEN "true"
        ELSE IF x.tag = "UB" \/ (x.tag = "Some" /\ y.tag = "UB") THEN "UB"
        ELSE IF x.tag = "None" \/ y.tag = "None" THEN "panic"
        ELSE IF x.bytes # y.bytes THEN "false"
        ELSE FxEqFrom(a, b, nu, le, idx + 1)

\* PartialEq::eq for FixedCompactBytestrings
FxEq(a, b, nu, le) ==
    IF FxLen(a) # FxLen(b) THEN "false" ELSE FxEqFrom(a, b, nu, le, 0)

\* the byte strings of the CompactBytestrings a container is compared with
EqCBInputs == { <<97>>, <<255>> }

\* the byte strings of the FixedCompactBytestrings a container is compared
\* with: one stored inline, one stored in data
EqFxInputs == { <<255>>, Run(31, BYTES) }

\* the sequences of at most two strings a container is compared with
UpToTwo(S) == { <<>> } \cup { <<x>> : x \in S } \cup { <<x, y>> : x \in S, y \in S }

-----------------------------------------------------------------------------
(* Calls with an index that is out of range *)

\* the container as assert_failed(index, len) finds it: the check is the first
\* thing ignore does
CBAtPanic_MetaPopped(c, index) == [c EXCEPT !.meta = SubSeq(@, 1, Len(@) - 1)]

CBAtPanic(c, index) == c

\* ignore(index) with index >= len()
CBIgnorePanics(index) ==
    /\ CBMutable
    /\ index >= CBLen(cb)
    /\ cb' = CBAtPanic(cb, index)
    /\ cb_fault' = "index"
    /\ panic_msg' = <<index, CBLen(cb)>>
    /\ cb_ops' = cb_ops + 1
    /\ op' = Op("ignore", index)
    /\ UNCHANGED <<cl_vars, li_vars, ws_vars, fx_vars, ls_vars, no_unsafe, little_endian, tf, cb_ref, cb_it, cb_out>>

\* remove(index) with index >= len()
CBRemovePanics(index) ==
    /\ CBMutable
    /\ index >= CBLen(cb)
    /\ cb_fault' = "index"
    /\ panic_msg' = <<index, CBLen(cb)>>
    /\ cb_ops' = cb_ops + 1
    /\ op' = Op("remove", index)
    /\ UNCHANGED <<cl_vars, li_vars, ws_vars, fx_vars, ls_vars, no_unsafe, little_endian, tf, cb, cb_ref, cb_it, cb_out>>

\* FixedCompactBytestrings::remove(index) with index >= len()
FxRemovePanics(index) ==
    /\ FxMutable
    /\ index >= FxLen(fx)
    /\ fx_fault' = "index"
    /\ panic_msg' = <<index, FxLen(fx)>>
    /\ fx_ops' = fx_ops + 1
    /\ op' = Op("remove", index)
    /\ UNCHANGED <<cl_vars, li_vars, ws_vars, cb_vars, ls_vars, no_unsafe, little_endian, tf, fx, fx_ref, fx_it, fx_out>>

-----------------------------------------------------------------------------
(* Specifications *)

\* CompactBytestrings::new(), no iterator
InitCBVars ==
    /\ cb = CBNew
    /\ cb_ref = <<>>
    /\ cb_fault = "none"
    /\ cb_ops = 0
    /\ cb_it = CBIterIdle
    /\ cb_out = <<>>

\* FixedCompactBytestrings::new(), no iterator
InitFxVars ==
    /\ fx = FxNew
    /\ fx_ref = <<>>
    /\ fx_fault = "none"
    /\ fx_ops = 0
    /\ fx_it = FxIterIdle
    /\ fx_out = <<>>

\* CompactStrings::new() of lib.rs
InitLsVars ==
    /\ ls = LsNew
    /\ ls_fault = "none"
    /\ ls_ops = 0

\* nothing converted, nothing panicked
InitHsVars ==
    /\ tf = TfIdle
    /\ panic_msg = <<>>

\* no iterator over a string wrapper
InitWsVars ==
    /\ cs_it = CSIterIdle
    /\ fcs_it = FxIterIdle
    /\ ls_it = LsIterIdle
    /\ ls_out = <<>>
    /\ cb_clone = [tag |-> "none", c |-> CBNew]
    /\ fx_clone = [tag |-> "none", c |-> FxNew]

\* either build of CompactBytestrings, which never looks at the byte order
InitCB ==
    /\ no_unsafe \in BOOLEAN
    /\ little_endian = TRUE
    /\ op = Op("new", 0)
    /\ InitCBVars
    /\ InitFxVars
    /\ InitLsVars
    /\ InitHsVars
    /\ InitWsVars

\* either build of FixedCompactBytestrings, on a target of either byte order
InitFx ==
    /\ no_unsafe \in BOOLEAN
    /\ little_endian \in BOOLEAN
    /\ op = Op("new", 0)
    /\ InitCBVars
    /\ InitFxVars
    /\ InitLsVars
    /\ InitHsVars
    /\ InitWsVars

\* CompactBytestrings under every operation
NextCB ==
    \/ \E s \in CBInputs : CBPush(s)
    \/ CBClear
    \/ \E i \in 0..(MaxElems - 1) : CBIgnore(i)
    \/ \E i \in 0..(MaxElems - 1) : CBRemove(i)
    \/ \E i \in 0..(MaxElems - 1) : CBRemoveFails(i)

SpecCB == InitCB /\ [][NextCB]_vars

\* CompactBytestrings filled by pushes only, then iterated from both ends
NextCBIter ==
    \/ \E s \in CBInputs : CBPush(s)
    \/ CBIter
    \/ CBIterNext
    \/ CBIterNextBack
    \/ CBIterDrop

SpecCBIter == InitCB /\ [][NextCBIter]_vars

\* FixedCompactBytestrings under push, remove and clear
NextFx ==
    \/ \E s \in FxInputs : FxPush(s)
    \/ FxClear
    \/ \E i \in 0..(MaxElems - 1) : FxRemove(i)
    \/ \E i \in 0..(MaxElems - 1) : FxRemoveFails(i)

SpecFx == InitFx /\ [][NextFx]_vars

\* FixedCompactBytestrings under push and clear, the operations of the fuzz
\* harness, then read with get and iterated
NextFxIter ==
    \/ \E s \in FxInputs : FxPush(s)
    \/ FxClear
    \/ FxIter
    \/ FxIterNext
    \/ FxIterDrop

SpecFxIter == InitFx /\ [][NextFxIter]_vars

\* FixedCompactBytestrings filled by pushes, then iterated from both ends
NextFxDeque ==
    \/ \E s \in FxInputs : FxPush(s)
    \/ FxIter
    \/ FxIterNext
    \/ FxIterNextBack
    \/ FxIterDrop

SpecFxDeque == InitFx /\ [][NextFxDeque]_vars

\* an inline element and an offset element
InlineAndOffset == { <<1, 2>>, Run(31, BYTES) }

\* a FixedCompactBytestrings filled, then iterated with skips from the front
NextFxNth ==
    \/ \E s \in InlineAndOffset : FxPush(s)
    \/ FxIter
    \/ FxIterNext
    \/ FxIterNextBack
    \/ \E n \in 0..(MaxElems - 1) : FxIterNth(n)
    \/ FxIterDrop

SpecFxNth == InitFx /\ [][NextFxNth]_vars

\* a FixedCompactBytestrings filled, then iterated with skips from the back
NextFxNthBack ==
    \/ \E s \in InlineAndOffset : FxPush(s)
    \/ FxIter
    \/ FxIterNext
    \/ FxIterNextBack
    \/ \E n \in 0..(MaxElems - 1) : FxIterNthBack(n)
    \/ FxIterDrop

SpecFxNthBack == InitFx /\ [][NextFxNthBack]_vars

\* lib.rs has no build options: its code is the same in every build
InitLs ==
    /\ no_unsafe = FALSE
    /\ little_endian = TRUE
    /\ op = Op("new", 0)
    /\ InitCBVars
    /\ InitFxVars
    /\ InitLsVars
    /\ InitHsVars
    /\ InitWsVars

\* the CompactStrings of lib.rs under every operation
NextLs ==
    \/ \E s \in LsInputs : LsPush(s)
    \/ LsClear
    \/ \E i \in 0..(MaxElems - 1) : LsIgnore(i)
    \/ \E i \in 0..(MaxElems - 1) : LsSwapIgnore(i)
    \/ \E i \in 0..(MaxElems - 1) : LsRemove(i)
    \/ \E i \in 0..(MaxElems - 1) : LsRemoveFails(i)
    \/ \E i \in 0..(MaxElems - 1) : LsSwapRemove(i)
    \/ \E i \in 0..(MaxElems - 1) : LsSwapRemoveFails(i)

SpecLs == InitLs /\ [][NextLs]_vars

\* the CompactStrings of lib.rs filled, then iterated while borrowed
NextLsIter ==
    \/ \E s \in LsInputs : ~ls_it.active /\ LsPush(s)
    \/ LsIter
    \/ LsIterNext
    \/ LsIterDrop

SpecLsIter == InitLs /\ [][NextLsIter]_vars

\* the wrapper CompactStrings under push, ignore and remove
NextCS ==
    \/ \E s \in CSInputs : CSPush(s)
    \/ \E i \in 0..(MaxElems - 1) : CSIgnore(i)
    \/ \E i \in 0..(MaxElems - 1) : CSRemove(i)
    \/ \E i \in 0..(MaxElems - 1) : CSRemoveFails(i)

SpecCS == InitCB /\ [][NextCS]_vars

\* the caller holds the CompactBytestrings and has used no other container
CBTurn == tf = TfIdle /\ fx_ops = 0

\* the caller holds the FixedCompactBytestrings and has used no other container
FxTurn == tf = TfIdle /\ cb_ops = 0

\* one container at a time, built by push, ignore and clear, then called
\* with an index out of range or converted into its string wrapper
NextApi ==
    \/ \E s \in TfCBInputs : CBTurn /\ CBPush(s)
    \/ CBTurn /\ CBClear
    \/ \E i \in 0..(MaxElems - 1) : CBTurn /\ CBIgnore(i)
    \/ \E i \in 0..MaxElems : CBTurn /\ CBIgnorePanics(i)
    \/ \E i \in 0..MaxElems : CBTurn /\ CBRemovePanics(i)
    \/ CBTurn /\ CBTryFrom
    \/ \E s \in TfFxInputs : FxTurn /\ FxPush(s)
    \/ FxTurn /\ FxClear
    \/ \E i \in 0..MaxElems : FxTurn /\ FxRemovePanics(i)
    \/ FxTurn /\ FxTryFrom

SpecApi == InitFx /\ [][NextApi]_vars

\* the caller works on the CompactBytestrings, or on the CompactStrings
\* that wraps it
CBSide == fx_ops = 0 /\ ~fx_it.active /\ ~fcs_it.active

\* the caller works on the FixedCompactBytestrings, or on the
\* FixedCompactStrings that wraps it
FxSide == cb_ops = 0 /\ ~cb_it.active /\ ~cs_it.active

\* one container at a time, filled by pushes of UTF-8 strings and then
\* iterated, through the engine's iterator or through the wrapper's
NextIters ==
    \/ \E s \in CBInputs : CBSide /\ NoWrapperIter /\ CBPush(s)
    \/ CBSide /\ NoWrapperIter /\ CBIter
    \/ CBSide /\ CBIterNext
    \/ CBSide /\ CBIterNextBack
    \/ CBSide /\ CBIterDrop
    \/ CBSide /\ CSIter
    \/ CBSide /\ CSIterNext
    \/ CBSide /\ CSIterDrop
    \/ \E s \in FxInputs : FxSide /\ NoWrapperIter /\ FxPush(s)
    \/ FxSide /\ NoWrapperIter /\ FxIter
    \/ FxSide /\ FxIterNext
    \/ FxSide /\ FxIterNextBack
    \/ FxSide /\ FxIterDrop
    \/ FxSide /\ FCSIter
    \/ FxSide /\ FCSIterNext
    \/ FxSide /\ FCSIterNextBack
    \/ FxSide /\ FCSIterDrop

SpecIters == InitFx /\ [][NextIters]_vars

\* the strings pushed into a FixedCompactStrings that grows large: one that
\* fills data up to a length whose low byte carries the inline tag and whose
\* next byte is not UTF-8 on its own (0x8090), and one of a word
LargeInputs == { [k \in 1..32912 |-> 97], Run(31, BYTES) }

\* a large FixedCompactStrings filled by pushes, then iterated
NextLarge ==
    \/ \E s \in LargeInputs : NoWrapperIter /\ FxPush(s)
    \/ FCSIter
    \/ FCSIterNext
    \/ FCSIterNextBack
    \/ FCSIterDrop

SpecLarge == InitFx /\ [][NextLarge]_vars

\* either engine under every operation that changes it, one container at a time
NextClear ==
    \/ \E s \in CBInputs : CBSide /\ CBPush(s)
    \/ CBSide /\ CBClear
    \/ \E i \in 0..(MaxElems - 1) : CBSide /\ CBIgnore(i)
    \/ \E i \in 0..(MaxElems - 1) : CBSide /\ CBRemove(i)
    \/ \E i \in 0..(MaxElems - 1) : CBSide /\ CBRemoveFails(i)
    \/ \E s \in InlineAndOffset : FxSide /\ FxPush(s)
    \/ FxSide /\ FxClear
    \/ \E i \in 0..(MaxElems - 1) : FxSide /\ FxRemove(i)
    \/ \E i \in 0..(MaxElems - 1) : FxSide /\ FxRemoveFails(i)

SpecClear == InitFx /\ [][NextClear]_vars

\* b"One", b"Two", b"Three" of the example in the documentation
DocInputs == { <<79, 110, 101>>, <<84, 119, 111>>, <<84, 104, 114, 101, 101>> }

\* the calls of the example in the documentation of CompactBytestrings
NextDoc ==
    \/ \E s \in DocInputs : CBPush(s)
    \/ \E i \in 0..(MaxElems - 1) : CBRemove(i)
    \/ \E i \in 0..(MaxElems - 1) : CBRemoveFails(i)

SpecDoc == InitCB /\ [][NextDoc]_vars

\* a FixedCompactBytestrings of inline and offset elements under push and remove
NextFxRemove ==
    \/ \E s \in InlineAndOffset : FxPush(s)
    \/ \E i \in 0..(MaxElems - 1) : FxRemove(i)
    \/ \E i \in 0..(MaxElems - 1) : FxRemoveFails(i)

SpecFxRemove == InitFx /\ [][NextFxRemove]_vars

\* CompactBytestrings under push, remove and clear, never ignore
NextCBRemove ==
    \/ \E s \in CBInputs : CBPush(s)
    \/ CBClear
    \/ \E i \in 0..(MaxElems - 1) : CBRemove(i)
    \/ \E i \in 0..(MaxElems - 1) : CBRemoveFails(i)

SpecCBRemove == InitCB /\ [][NextCBRemove]_vars

\* a FixedCompactBytestrings of inline and offset elements, cloned
NextFxClone ==
    \/ \E s \in InlineAndOffset : FxPush(s)
    \/ FxClear
    \/ FxClone

SpecFxClone == InitFx /\ [][NextFxClone]_vars

\* CompactBytestrings under every operation, cloned
NextCBClone ==
    \/ \E s \in CBInputs : CBPush(s)
    \/ CBClear
    \/ \E i \in 0..(MaxElems - 1) : CBIgnore(i)
    \/ \E i \in 0..(MaxElems - 1) : CBRemove(i)
    \/ \E i \in 0..(MaxElems - 1) : CBRemoveFails(i)
    \/ CBClone

SpecCBClone == InitCB /\ [][NextCBClone]_vars

\* CompactBytestrings or the CompactStrings of lib.rs, one container at a
\* time, under the operations that take elements out
NextRebase ==
    \/ \E s \in CBInputs : ls_ops = 0 /\ CBPush(s)
    \/ \E i \in 0..(MaxElems - 1) : ls_ops = 0 /\ CBIgnore(i)
    \/ \E i \in 0..(MaxElems - 1) : ls_ops = 0 /\ CBRemove(i)
    \/ \E i \in 0..(MaxElems - 1) : ls_ops = 0 /\ CBRemoveFails(i)
    \/ \E s \in LsInputs : cb_ops = 0 /\ LsPush(s)
    \/ \E i \in 0..(MaxElems - 1) : cb_ops = 0 /\ LsIgnore(i)
    \/ \E i \in 0..(MaxElems - 1) : cb_ops = 0 /\ LsSwapIgnore(i)
    \/ \E i \in 0..(MaxElems - 1) : cb_ops = 0 /\ LsRemove(i)
    \/ \E i \in 0..(MaxElems - 1) : cb_ops = 0 /\ LsRemoveFails(i)
    \/ \E i \in 0..(MaxElems - 1) : cb_ops = 0 /\ LsSwapRemove(i)
    \/ \E i \in 0..(MaxElems - 1) : cb_ops = 0 /\ LsSwapRemoveFails(i)

SpecRebase == InitLs /\ [][NextRebase]_vars

-----------------------------------------------------------------------------
(* Claims about CompactBytestrings *)

\* C1 (as claimed): remove(i) with i < len() leaves len() one less, get(j)
\* unchanged for j < i, and get(j) equal to the former get(j + 1) for j >= i.
C1_RemoveShiftsDown ==
    [][\A i \in 0..(MaxElems - 1) :
          CBRemove(i) =>
            /\ CBLen(cb') = CBLen(cb) - 1
            /\ \A j \in 0..(CBLen(cb) - 2) :
                  LET before == CBGetOp(cb, no_unsafe, IF j < i THEN j ELSE j + 1)
                  IN  before.tag = "Some" => CBGetOp(cb', no_unsafe, j) = before]_vars

\* C3: after pushing s0..sn into an empty CompactBytestrings, successive
\* next() calls on iter() return Some(s0), ..., Some(sn) in order and then
\* None.
C3_PushThenIterate ==
    (cb_it.active /\ \A k \in 1..Len(cb_out) : cb_out[k].side = "front") =>
        \A k \in 1..Len(cb_out) :
            cb_out[k].item = IF k <= Len(cb_ref) THEN Some(cb_ref[k]) ELSE None

\* an iterator over two different elements was run to the end and returned None
C3_Witness ==
    /\ cb_it.active
    /\ Len(cb_ref) >= 2
    /\ cb_ref[1] # cb_ref[2]
    /\ Len(cb_out) = Len(cb_ref) + 1
    /\ \A k \in 1..Len(cb_out) : cb_out[k].side = "front"
    /\ cb_out[Len(cb_out)].item = None

\* C6 (as claimed): every metadata entry's range lies inside data.
C6_RangesInsideData ==
    \A k \in 1..Len(cb.meta) : cb.meta[k].start + cb.meta[k].len <= Len(cb.data)

\* C7 (as claimed): the byte ranges of two distinct elements of non-zero
\* length never overlap.
C7_RangesDisjoint ==
    \A i, j \in 1..Len(cb.meta) :
        (i # j /\ cb.meta[i].len > 0 /\ cb.meta[j].len > 0) =>
            \/ cb.meta[i].start + cb.meta[i].len <= cb.meta[j].start
            \/ cb.meta[j].start + cb.meta[j].len <= cb.meta[i].start

\* C10 (as claimed): from the same state and the same i < len(), ignore(i)
\* and remove(i) give the same len() and the same get(j) for every j.
C10_IgnoreLikeRemove ==
    \A i \in 0..(CBLen(cb) - 1) :
        CBRemoveFault(cb, no_unsafe, i) = "none" =>
            LET ignored == CBIgnoreOp(cb, i)
                removed == CBRemoveOp(cb, no_unsafe, i)
            IN  /\ CBLen(ignored) = CBLen(removed)
                /\ \A j \in 0..CBLen(cb) :
                      CBGetOp(ignored, no_unsafe, j) = CBGetOp(removed, no_unsafe, j)

-----------------------------------------------------------------------------
(* Claims about FixedCompactBytestrings *)

\* C2 (as claimed): FixedCompactBytestrings::remove(i) with i < len() leaves
\* len() one less, get(j) unchanged for j < i, and get(j) equal to the former
\* get(j + 1) for j >= i, for any mix of inline and offset elements.
C2_FixedRemoveShiftsDown ==
    [][\A i \in 0..(MaxElems - 1) :
          FxRemove(i) =>
            /\ FxLen(fx') = FxLen(fx) - 1
            /\ \A j \in 0..(FxLen(fx) - 2) :
                  LET before == FxGetOp(fx, no_unsafe, little_endian,
                                        IF j < i THEN j ELSE j + 1)
                  IN  before.tag = "Some" =>
                        FxGetOp(fx', no_unsafe, little_endian, j) = before]_vars

\* C4 (as claimed): after any sequence of push and clear, the next() calls
\* of iter() return the elements of the reference Vec<Vec<u8>> in order, and
\* then None.
C4_FixedIterMatchesModel ==
    fx_it.active =>
        \A k \in 1..Len(fx_out) :
            fx_out[k].item = IF k <= Len(fx_ref) THEN Some(fx_ref[k]) ELSE None

\* C5 (as claimed): after any sequence of push and clear, get(i) returns the
\* i-th element of the reference Vec<Vec<u8>> for every i < len(), and len()
\* and is_empty() equal the reference's.
C5_FixedGetMatchesModel ==
    /\ FxLen(fx) = Len(fx_ref)
    /\ FxIsEmpty(fx) = (fx_ref = <<>>)
    /\ \A i \in 0..(Len(fx_ref) - 1) :
          FxGetOp(fx, no_unsafe, little_endian, i) = Some(fx_ref[i + 1])

\* C11 (as claimed): a slot that push wrote as a plain offset (the string had
\* BYTES bytes or more) never passes the inline test on its first byte in
\* memory.
C11_OffsetNeverInline ==
    \A k \in 1..Len(fx_ref) :
        (k <= FxLen(fx) /\ Len(fx_ref[k]) >= BYTES) => ~IsInline(fx.starts[k])

\* C12 (as claimed): push of a string shorter than BYTES leaves data as it
\* was and appends one slot; push of a string of BYTES bytes or more grows
\* data by the string's length and appends one slot holding the former
\* data.len(); either way get of the new last index returns the pushed bytes.
C12_PushBoundary ==
    [][\A s \in FxInputs :
          FxPush(s) =>
            /\ FxLen(fx') = FxLen(fx) + 1
            /\ Len(s) < BYTES => fx'.data = fx.data
            /\ Len(s) >= BYTES =>
                  /\ Len(fx'.data) = Len(fx.data) + Len(s)
                  /\ SlotValue(fx'.starts[FxLen(fx')], little_endian)
                       = Small(Len(fx.data))
            /\ FxGetOp(fx', no_unsafe, little_endian, FxLen(fx') - 1) = Some(s)]_vars

-----------------------------------------------------------------------------
(* Claims about the CompactStrings of lib.rs *)

\* C8 (as claimed): swap_remove(i) with i < len() leaves len() one less,
\* get(i) equal to the former last element (unless i was the last index), and
\* get(j) unchanged at every other remaining index.
C8_SwapRemoveMovesLast ==
    [][\A i \in 0..(MaxElems - 1) :
          LsSwapRemove(i) =>
            /\ LsLen(ls') = LsLen(ls) - 1
            /\ \A j \in 0..(LsLen(ls) - 2) :
                  LET before == LsGetOp(ls, IF j = i THEN LsLen(ls) - 1 ELSE j)
                  IN  before.tag = "Some" => LsGetOp(ls', j) = before]_vars

\* C9 (as claimed): remove(i) with i < len(), after earlier swap_ignore or
\* swap_remove calls, leaves every remaining element's get result as it was,
\* one index lower for the indices above i.
C9_RemoveAfterSwaps ==
    [][\A i \in 0..(MaxElems - 1) :
          LsRemove(i) =>
            \A j \in 0..(LsLen(ls) - 2) :
                LET before == LsGetOp(ls, IF j < i THEN j ELSE j + 1)
                IN  before.tag = "Some" => LsGetOp(ls', j) = before]_vars

-----------------------------------------------------------------------------
(* Claims about the string wrappers *)

\* C13 (as claimed): after any sequence of push, ignore and remove on the
\* wrapper CompactStrings, get(i) with i < len() returns exactly the bytes of
\* one of the strings pushed, hence valid UTF-8.
C13_WrapperGetIsPushedString ==
    \A i \in 0..(CBLen(cb) - 1) :
        LET r == CSGetOp(cb, no_unsafe, i)
        IN  r.tag = "Some" /\ r.bytes \in CSInputs /\ Utf8Valid(r.bytes)

\* C14: the conversion of a container built by push, ignore and clear into
\* its string wrapper returns an error exactly when some element the
\* container shows is not valid UTF-8; when it succeeds the wrapper has the
\* container's len() and shows the same contents at every index.
C14_TryFromRejectsInvalid ==
    /\ tf.of = "cb" =>
          /\ tf.result \in {"Ok", "Err"}
          /\ tf.result = "Err" <=>
                \E i \in 0..(CBLen(cb) - 1) : ~Utf8Valid(CBGetOp(cb, no_unsafe, i).bytes)
          /\ tf.result = "Ok" =>
                /\ CBLen(cb) = Len(cb_ref)
                /\ \A i \in 0..CBLen(cb) :
                      /\ CSGetOp(cb, no_unsafe, i) = CBGetOp(cb, no_unsafe, i)
                      /\ i < CBLen(cb) => CSGetOp(cb, no_unsafe, i) = Some(cb_ref[i + 1])
    /\ tf.of = "fx" =>
          /\ tf.result \in {"Ok", "Err"}
          /\ tf.result = "Err" <=>
                \E i \in 0..(FxLen(fx) - 1) :
                    ~Utf8Valid(FxGetOp(fx, no_unsafe, little_endian, i).bytes)
          /\ tf.result = "Ok" =>
                \A i \in 0..FxLen(fx) :
                    FCSGetOp(fx, no_unsafe, little_endian, i)
                        = FxGetOp(fx, no_unsafe, little_endian, i)

\* a CompactBytestrings whose first element is valid UTF-8 and whose second
\* is not was refused
C14_Witness ==
    /\ tf.of = "cb"
    /\ tf.result = "Err"
    /\ CBLen(cb) >= 2
    /\ Utf8Valid(cb_ref[1])
    /\ ~Utf8Valid(cb_ref[2])

\* C15 (as claimed): when the conversion fails UTF-8 validation the caller
\* still holds the container it passed in.
C15_FailedTryFromKeepsEngine ==
    tf.result = "Err" => tf.owner = "caller"

-----------------------------------------------------------------------------
(* Claims about both engines *)

\* C16: a call of CompactBytestrings::ignore, CompactBytestrings::remove or
\* FixedCompactBytestrings::remove with index >= len() panics, the panic
\* reports the index and the length, and the container's data and metadata
\* are what they were before the call.
C16_OutOfRangePanics ==
    [][/\ ( /\ cb_ops' # cb_ops
            /\ op'.name \in {"ignore", "remove"}
            /\ op'.index >= CBLen(cb) ) =>
              /\ cb_fault' = "index"
              /\ panic_msg' = <<op'.index, CBLen(cb)>>
              /\ cb' = cb
       /\ ( /\ fx_ops' # fx_ops
            /\ op'.name = "remove"
            /\ op'.index >= FxLen(fx) ) =>
              /\ fx_fault' = "index"
              /\ panic_msg' = <<op'.index, FxLen(fx)>>
              /\ fx' = fx]_vars

\* ignore(len()) was called on a CompactBytestrings that holds elements
C16_Witness ==
    /\ op.name = "ignore"
    /\ cb_fault = "index"
    /\ CBLen(cb) >= 1
    /\ panic_msg = <<CBLen(cb), CBLen(cb)>>

\* C17 (as claimed): in every reachable state of either engine and for every
\* index i, get(i) is None if and only if i >= len(), and Some for i < len().
C17_GetNoneIffOutOfRange ==
    \A i \in 0..MaxElems :
        /\ i < CBLen(cb) => CBGetOp(cb, no_unsafe, i).tag = "Some"
        /\ i >= CBLen(cb) => CBGetOp(cb, no_unsafe, i) = None
        /\ i < FxLen(fx) => FxGetOp(fx, no_unsafe, little_endian, i).tag = "Some"
        /\ i >= FxLen(fx) => FxGetOp(fx, no_unsafe, little_endian, i) = None

\* C18: in a build that has get_unchecked (no_unsafe is off), for both
\* engines and every i < len(), get_unchecked(i) returns the bytes that get(i)
\* returns.
C18_GetUncheckedAgrees ==
    ~no_unsafe =>
        /\ \A i \in 0..(CBLen(cb) - 1) :
              /\ CBGetUncheckedOp(cb, i).tag = "Ref"
              /\ CBGetOp(cb, no_unsafe, i) = Some(CBGetUncheckedOp(cb, i).bytes)
        /\ \A i \in 0..(FxLen(fx) - 1) :
              /\ FxGetUncheckedOp(fx, little_endian, i).tag = "Ref"
              /\ FxGetOp(fx, no_unsafe, little_endian, i)
                     = Some(FxGetUncheckedOp(fx, little_endian, i).bytes)

\* a full CompactBytestrings whose elements differ, in a build with
\* get_unchecked
C18_Witness ==
    /\ ~no_unsafe
    /\ CBLen(cb) = MaxElems
    /\ cb_ref[1] # cb_ref[2]
    /\ CBGetUncheckedOp(cb, 0) = Ref(cb_ref[1])

\* C19: two containers of one type compare equal exactly when they have the
\* same len() and get(i) returns equal bytes at every index, whatever their
\* layout: a CompactBytestrings with bytes orphaned by ignore equals the one
\* built by pushing its surviving elements.
C19_EqualityByContent ==
    /\ CBEq(cb, CBExtend(CBNew, cb_ref), no_unsafe) = "true"
    /\ CBEq(CBExtend(CBNew, cb_ref), cb, no_unsafe) = "true"
    /\ \A q \in UpToTwo(EqCBInputs) :
          LET other == CBExtend(CBNew, q)
              same == /\ CBLen(cb) = CBLen(other)
                      /\ \A i \in 0..(CBLen(cb) - 1) :
                            CBGetOp(cb, no_unsafe, i) = CBGetOp(other, no_unsafe, i)
          IN  /\ CBEq(cb, other, no_unsafe) = IF same THEN "true" ELSE "false"
              /\ CBEq(other, cb, no_unsafe) = IF same THEN "true" ELSE "false"
    /\ \A q \in UpToTwo(EqFxInputs) :
          LET other == FxExtend(FxNew, little_endian, q)
              same == /\ FxLen(fx) = FxLen(other)
                      /\ \A i \in 0..(FxLen(fx) - 1) :
                            FxGetOp(fx, no_unsafe, little_endian, i)
                                = FxGetOp(other, no_unsafe, little_endian, i)
          IN  /\ FxEq(fx, other, no_unsafe, little_endian) = IF same THEN "true" ELSE "false"
              /\ FxEq(other, fx, no_unsafe, little_endian) = IF same THEN "true" ELSE "false"

\* a CompactBytestrings that kept elements after an ignore left orphaned
\* bytes in data
C19_Witness ==
    /\ op.name = "ignore"
    /\ CBLen(cb) >= 1
    /\ cb # CBExtend(CBNew, cb_ref)
    /\ CBEq(cb, CBExtend(CBNew, cb_ref), no_unsafe) = "true"

-----------------------------------------------------------------------------
(* Claims about the iterator of FixedCompactBytestrings *)

\* the number of calls among the first k that came from one side
CallsFrom(out, side, k) == Cardinality({ j \in 1..k : out[j].side = side })

\* C20 (as claimed): over a FixedCompactBytestrings built by pushing
\* e0..e(n-1), every interleaving of next() and next_back() yields e0, e1, ...
\* from the front and e(n-1), e(n-2), ... from the back, each element once,
\* and both return None once n elements have been yielded.
C20_DoubleEndedIteration ==
    fx_it.active =>
        \A k \in 1..Len(fx_out) :
            fx_out[k].item =
                IF k > Len(fx_ref) THEN None
                ELSE IF fx_out[k].side = "front"
                THEN Some(fx_ref[CallsFrom(fx_out, "front", k)])
                ELSE Some(fx_ref[Len(fx_ref) + 1 - CallsFrom(fx_out, "back", k)])

-----------------------------------------------------------------------------
(* Claims about the iterators *)

\* C21: over a CompactBytestrings holding e0..e(n-1), every interleaving of
\* next() and next_back() yields the front elements in index order and the
\* back elements in reverse index order, each element once, and both calls
\* return None once n elements have been yielded.
C21_CBDoubleEndedIteration ==
    cb_it.active =>
        \A k \in 1..Len(cb_out) :
            cb_out[k].item =
                IF k > Len(cb_ref) THEN None
                ELSE IF cb_out[k].side = "front"
                THEN Some(cb_ref[CallsFrom(cb_out, "front", k)])
                ELSE Some(cb_ref[Len(cb_ref) + 1 - CallsFrom(cb_out, "back", k)])

\* three elements were taken front, back, front, and then both ends
\* returned None
C21_Witness ==
    /\ cb_it.active
    /\ Len(cb_ref) = 3
    /\ cb_ref[1] # cb_ref[3]
    /\ Len(cb_out) = 5
    /\ cb_out[1].side = "front"
    /\ cb_out[2].side = "back"
    /\ cb_out[3].side = "front"
    /\ cb_out[4] = [side |-> "back", item |-> None]
    /\ cb_out[5] = [side |-> "front", item |-> None]

\* the calls that returned an element
Yielded(out) == Cardinality({ k \in 1..Len(out) : out[k].item.tag = "Some" })

\* C22: for the iterators of CompactBytestrings, FixedCompactBytestrings,
\* FixedCompactStrings and the CompactStrings of compact_strings.rs, len() is
\* the number of elements not yet yielded: the container's len() at first,
\* one less after each next() or next_back() that returned Some, and 0 on
\* every call after exhaustion.
C22_IterLenCountsRemaining ==
    /\ cb_it.active => CBIterLen(cb_it) = CBLen(cb) - Yielded(cb_out)
    /\ cs_it.active => CSIterLen(cb, cs_it) = CBLen(cb) - Yielded(cb_out)
    /\ fx_it.active => FxIterLen(fx_it) = FxLen(fx) - Yielded(fx_out)
    /\ fcs_it.active => FCSIterLen(fcs_it) = FxLen(fx) - Yielded(fx_out)
    /\ \A out \in {cb_out, fx_out} :
          \A k \in 1..Len(out) : out[k].item.tag = "Some" <=> k <= Yielded(out)

\* C23: for the iterator of the CompactStrings of lib.rs, len() is the number
\* of elements not yet yielded: the container's len() before any call, one
\* less after each next() that returned Some, and 0 after exhaustion.
C23_LibIterLenCountsRemaining ==
    ls_it.active => LsIterLen(ls, ls_it) = LsLen(ls) - Yielded(ls_out)

-----------------------------------------------------------------------------
(* Claims about nth and nth_back *)

\* k successive next() calls: the last result and the iterator left behind
RECURSIVE FxNexts(_, _, _, _, _)
FxNexts(c, nu, le, it, k) ==
    IF k = 1 THEN [item |-> FxIterNextItem(c, nu, le, it), it |-> FxIterNextState(it)]
    ELSE FxNexts(c, nu, le, FxIterNextState(it), k - 1)

\* k successive next_back() calls; a call that does not return ends them
RECURSIVE FxNextBacks(_, _, _, _, _)
FxNextBacks(c, nu, le, it, k) ==
    LET item == FxIterNextBackItem(c, nu, le, it)
        after == FxIterNextBackState(c, le, it)
    IN  IF k = 1 \/ item.tag \in {"Panic", "UB"} THEN [item |-> item, it |-> after]
        ELSE FxNextBacks(c, nu, le, after, k - 1)

\* two iterators over c agree on len() and on every next() and next_back()
\* of every call sequence of up to d + 1 calls
RECURSIVE SameFuture(_, _, _, _, _, _)
SameFuture(c, nu, le, a, b, d) ==
    /\ FxIterLen(a) = FxIterLen(b)
    /\ FxIterNextItem(c, nu, le, a) = FxIterNextItem(c, nu, le, b)
    /\ FxIterNextBackItem(c, nu, le, a) = FxIterNextBackItem(c, nu, le, b)
    /\ d > 0 =>
          /\ SameFuture(c, nu, le, FxIterNextState(a), FxIterNextState(b), d - 1)
          /\ SameFuture(c, nu, le, FxIterNextBackState(c, le, a),
                        FxIterNextBackState(c, le, b), d - 1)

\* C24 (as claimed): on the FixedCompactBytestrings iterator, nth_back(n)
\* returns the element that n + 1 successive next_back() calls return last and
\* leaves an iterator whose later next(), next_back() and len() results are
\* the same, for any mix of inline and offset elements and any n.
C24_NthBackLikeNextBacks ==
    [][\A n \in 0..(MaxElems - 1) :
          FxIterNthBack(n) =>
              LET r == FxNextBacks(fx, no_unsafe, little_endian, fx_it, n + 1)
              IN  /\ fx_out'[Len(fx_out')].item = r.item
                  /\ r.item.tag \notin {"Panic", "UB"} =>
                        SameFuture(fx, no_unsafe, little_endian, fx_it', r.it, MaxElems)]_vars

\* C25: on the FixedCompactBytestrings iterator, nth(n) returns the element
\* that n + 1 successive next() calls return last and leaves an iterator whose
\* later next(), next_back() and len() results are the same, for any mix of
\* inline and offset elements and any n, also after elements were taken from
\* the back.
C25_NthLikeNexts ==
    [][\A n \in 0..(MaxElems - 1) :
          FxIterNth(n) =>
              LET r == FxNexts(fx, no_unsafe, little_endian, fx_it, n + 1)
              IN  /\ fx_out'[Len(fx_out')].item = r.item
                  /\ SameFuture(fx, no_unsafe, little_endian, fx_it', r.it, MaxElems)]_vars

\* nth(1) stepped over an element and returned an offset element after the
\* last element had been taken from the back
C25_Witness ==
    /\ fx_it.active
    /\ op = Op("nth", 1)
    /\ Len(fx_ref) = 3
    /\ Len(fx_out) = 2
    /\ fx_out[1] = [side |-> "back", item |-> Some(fx_ref[3])]
    /\ fx_out[2] = [side |-> "front", item |-> Some(fx_ref[2])]
    /\ Len(fx_ref[2]) = BYTES
    /\ Len(fx_ref[3]) = BYTES

-----------------------------------------------------------------------------
(* Claims about clear *)

\* what a caller sees of a CompactBytestrings: len(), is_empty(), every get(i)
\* and the elements iter() yields
CBSeen(c, nu) ==
    [len |-> CBLen(c),
     is_empty |-> CBIsEmpty(c),
     get |-> [i \in 0..MaxElems |-> CBGetOp(c, nu, i)],
     iter |-> [k \in 0..MaxElems |->
                  CBIterNextItem(c, nu, [CBIterNew(c) EXCEPT !.front = k])]]

\* what a caller sees of a FixedCompactBytestrings
FxSeen(c, nu, le) ==
    [len |-> FxLen(c),
     is_empty |-> FxIsEmpty(c),
     get |-> [i \in 0..MaxElems |-> FxGetOp(c, nu, le, i)],
     iter |-> [k \in 0..MaxElems |->
                  FxIterNextItem(c, nu, le, [FxIterNew(c) EXCEPT !.front = k])]]

\* C26: after clear() on either engine, in any state a program can bring it
\* to, len() is 0, is_empty() holds and get(i) is None for every i; pushes made
\* afterwards give the len, get and iter results the same pushes give on a
\* newly constructed container.
C26_ClearLikeNew ==
    [][/\ CBClear =>
            /\ CBLen(cb') = 0
            /\ CBIsEmpty(cb')
            /\ \A i \in 0..MaxElems : CBGetOp(cb', no_unsafe, i) = None
            /\ \A strs \in UpToTwo(CBInputs) :
                  CBSeen(CBExtend(cb', strs), no_unsafe)
                      = CBSeen(CBExtend(CBNew, strs), no_unsafe)
       /\ FxClear =>
            /\ FxLen(fx') = 0
            /\ FxIsEmpty(fx')
            /\ \A i \in 0..MaxElems : FxGetOp(fx', no_unsafe, little_endian, i) = None
            /\ \A strs \in UpToTwo(InlineAndOffset) :
                  FxSeen(FxExtend(fx', little_endian, strs), no_unsafe, little_endian)
                      = FxSeen(FxExtend(FxNew, little_endian, strs), no_unsafe, little_endian)]_vars

\* a FixedCompactBytestrings that had received three calls was cleared
C26_Witness ==
    /\ op = Op("clear", 0)
    /\ fx_ops >= 4
    /\ FxLen(fx) = 0

-----------------------------------------------------------------------------
(* Claims about remove *)

\* C27: after b"One", b"Two", b"Three" were pushed into an empty
\* CompactBytestrings, remove(1) leaves get(0) = b"One", get(1) = b"Three",
\* get(2) = None and len() = 2.
C27_DocExample ==
    [][(/\ cb_ops = 3
        /\ cb_ref = << <<79, 110, 101>>, <<84, 119, 111>>, <<84, 104, 114, 101, 101>> >>
        /\ CBRemove(1)) =>
            /\ CBGetOp(cb', no_unsafe, 0) = Some(<<79, 110, 101>>)
            /\ CBGetOp(cb', no_unsafe, 1) = Some(<<84, 104, 114, 101, 101>>)
            /\ CBGetOp(cb', no_unsafe, 2) = None
            /\ CBLen(cb') = 2]_vars

\* remove(1) was the fourth call, after three pushes that began with b"One"
\* and ended with b"Three"
C27_Witness ==
    /\ op = Op("remove", 1)
    /\ cb_ops = 4
    /\ cb_ref = << <<79, 110, 101>>, <<84, 104, 114, 101, 101>> >>
    /\ Len(cb.data) \in {8, 11}

\* the length of the offset element at index: from its start to the start of
\* the next offset slot, or to the end of data
FxOwnLen(c, le, index) ==
    FxFindNext(c.starts, le, index + 1, Len(c.starts), Len(c.data)).val
        - SlotValue(c.starts[index + 1], le).val

\* C28 (as claimed): remove(i) of an offset element leaves every inline slot
\* at every other index bit for bit as it was; only the offset slots after
\* the removed one have the removed length subtracted.
C28_RemoveKeepsInlineSlots ==
    [][\A i \in 0..(MaxElems - 1) :
          (FxRemove(i) /\ ~IsInline(fx.starts[i + 1])) =>
              LET rest == VecRemove(fx.starts, i)
                  len == FxOwnLen(fx, little_endian, i)
              IN  /\ Len(fx'.starts) = Len(rest)
                  /\ \A k \in 1..Len(rest) :
                        fx'.starts[k] =
                            IF IsInline(rest[k]) \/ k <= i THEN rest[k]
                            ELSE SlotSub(rest[k], len, little_endian)]_vars

\* C29 (as claimed): remove(i) of an offset element shortens data by that
\* element's own length, from its start to the start of the next offset slot
\* or to the end of data, and takes out exactly that range of bytes.
C29_RemoveCutsOwnRange ==
    [][\A i \in 0..(MaxElems - 1) :
          (FxRemove(i) /\ ~IsInline(fx.starts[i + 1])) =>
              LET start == SlotValue(fx.starts[i + 1], little_endian).val
                  len == FxOwnLen(fx, little_endian, i)
              IN  /\ Len(fx'.data) = Len(fx.data) - len
                  /\ fx'.data = Slice(fx.data, 0, start)
                                    \o Slice(fx.data, start + len, Len(fx.data))]_vars

\* C30: remove(i) of an element whose slot is inline takes slot i out and
\* changes nothing else: data keeps its length and content, and every other
\* slot keeps its value and its place relative to the others.
C30_RemoveInlineOnlyDropsSlot ==
    [][\A i \in 0..(MaxElems - 1) :
          (FxRemove(i) /\ IsInline(fx.starts[i + 1])) =>
              /\ fx'.data = fx.data
              /\ fx'.starts = VecRemove(fx.starts, i)]_vars

\* with feature no_unsafe, where the removal of an offset element leaves the
\* length of data alone, an inline element was removed from between two
\* offset elements
C30_Witness ==
    /\ no_unsafe
    /\ op = Op("remove", 1)
    /\ fx_ops = 4
    /\ fx_ref = <<Run(31, BYTES), Run(31, BYTES)>>
    /\ Len(fx.data) = 2 * BYTES
    /\ Len(fx.starts) = 2

-----------------------------------------------------------------------------
(* Claims about ignore and swap_ignore *)

\* C31: CompactBytestrings::ignore(i) with i < len() leaves data as it was in
\* length and content, and the remaining metadata entries keep their
\* (start, len) values and their order; only entry i disappears.
C31_IgnoreOnlyDropsEntry ==
    [][\A i \in 0..(MaxElems - 1) :
          CBIgnore(i) =>
              /\ cb'.data = cb.data
              /\ Len(cb'.meta) = Len(cb.meta) - 1
              /\ \A k \in 1..Len(cb'.meta) :
                    cb'.meta[k] = IF k <= i THEN cb.meta[k] ELSE cb.meta[k + 1]]_vars

\* ignore(0) was the fourth call on a container of three elements: two entries
\* are left and the bytes of the ignored element are still in data
C31_Witness ==
    /\ op = Op("ignore", 0)
    /\ cb_ops = 4
    /\ CBLen(cb) = 2
    /\ cb.meta[1].start > 0
    /\ cb.meta[2].start + cb.meta[2].len = Len(cb.data)

\* C32: for the CompactStrings of lib.rs, swap_ignore(i) with i < len() leaves
\* data as it was and len() one less; get(i) returns what the last index
\* returned before (unless i was the last index) and get(j) is as before at
\* every other remaining index.
C32_SwapIgnoreMovesLast ==
    [][\A i \in 0..(MaxElems - 1) :
          LsSwapIgnore(i) =>
              /\ ls'.data = ls.data
              /\ LsLen(ls') = LsLen(ls) - 1
              /\ LsGetOp(ls', LsLen(ls')) = None
              /\ \A j \in 0..(LsLen(ls) - 2) :
                    LsGetOp(ls', j) = LsGetOp(ls, IF j = i THEN LsLen(ls) - 1 ELSE j)]_vars

\* swap_ignore(0) was the fourth call on a container of three elements, and
\* the third element, whose bytes end data, is now at index 0
C32_Witness ==
    /\ op = Op("swap_ignore", 0)
    /\ ls_ops = 4
    /\ LsLen(ls) = 2
    /\ LsGetOp(ls, 0).tag = "Some"
    /\ ls.meta[1][1] > ls.meta[2][1]
    /\ ls.meta[1][1] + ls.meta[1][2] = Len(ls.data)

-----------------------------------------------------------------------------
(* Claims about the two builds *)

\* C33 (as claimed): the build with feature no_unsafe ends in the same
\* container state and returns the same get results as the default build; in
\* particular remove shortens data by the removed element's length in both
\* builds. Stated for the first remove after pushes only, which leave the
\* same container in both builds.
C33_BuildsAgree ==
    [][/\ \A i \in 0..(MaxElems - 1) :
            (CBRemove(i) /\ cb_ops = Len(cb_ref)) =>
                /\ CBRemoveOp(cb, TRUE, i) = CBRemoveOp(cb, FALSE, i)
                /\ \A j \in 0..MaxElems :
                      CBGetOp(CBRemoveOp(cb, TRUE, i), TRUE, j)
                          = CBGetOp(CBRemoveOp(cb, FALSE, i), FALSE, j)
                /\ Len(cb'.data) = Len(cb.data) - cb.meta[i + 1].len
       /\ \A i \in 0..(MaxElems - 1) :
            (FxRemove(i) /\ fx_ops = Len(fx_ref)) =>
                /\ FxRemoveOp(fx, TRUE, little_endian, i)
                      = FxRemoveOp(fx, FALSE, little_endian, i)
                /\ \A j \in 0..MaxElems :
                      FxGetOp(FxRemoveOp(fx, TRUE, little_endian, i), TRUE, little_endian, j)
                          = FxGetOp(FxRemoveOp(fx, FALSE, little_endian, i), FALSE,
                                    little_endian, j)
                /\ ~IsInline(fx.starts[i + 1]) =>
                      Len(fx'.data) = Len(fx.data) - Len(fx_ref[i + 1])]_vars

-----------------------------------------------------------------------------
(* Claims about the slots of FixedCompactBytestrings *)

\* C34 (as claimed): next_back and nth_back of the iterator take a slot for
\* inline exactly when get, next, nth and remove do, for every slot push can
\* write.
C34_SameInlineTest ==
    \A k \in 1..Len(fx.starts) : IsInlineBack(fx.starts[k]) <=> IsInline(fx.starts[k])

-----------------------------------------------------------------------------
(* Claims about the layout after remove *)

\* C35 (as claimed): in CompactBytestrings states reached from empty by push,
\* remove and clear only, the metadata ranges tile data in index order: the
\* first starts at 0, each next one starts where the one before ends, and
\* the last ends at data.len().
C35_RangesTileData ==
    cb_fault = "none" =>
        /\ CBLen(cb) = 0 => Len(cb.data) = 0
        /\ CBLen(cb) > 0 =>
              /\ cb.meta[1].start = 0
              /\ \A k \in 2..CBLen(cb) :
                    cb.meta[k].start = cb.meta[k - 1].start + cb.meta[k - 1].len
              /\ cb.meta[CBLen(cb)].start + cb.meta[CBLen(cb)].len = Len(cb.data)

\* C36 (as claimed): in every FixedCompactBytestrings state reached from empty
\* by push, remove and clear, the values of the offset slots do not decrease
\* in slot order and none exceeds data.len().
C36_OffsetsOrdered ==
    fx_fault = "none" =>
        LET offs == { k \in 1..Len(fx.starts) : ~IsInline(fx.starts[k]) }
            val(k) == SlotValue(fx.starts[k], little_endian)
        IN  /\ \A k \in offs : ~val(k).huge /\ val(k).val <= Len(fx.data)
            /\ \A k \in offs : \A l \in offs : k < l => val(k).val <= val(l).val

-----------------------------------------------------------------------------
(* Claims about clone *)

\* C37 (as claimed): clone() of a FixedCompactBytestrings holding any mix of
\* inline and offset elements gives a container equal to the original: the
\* same len() and, for every i, get(i) returning the same bytes.
C37_FixedCloneEqual ==
    [][FxClone =>
          /\ fx_clone'.tag = "Ok"
          /\ FxLen(fx_clone'.c) = FxLen(fx)
          /\ \A i \in 0..MaxElems :
                FxGetOp(fx_clone'.c, no_unsafe, little_endian, i)
                    = FxGetOp(fx, no_unsafe, little_endian, i)]_vars

\* C38 (as claimed): clone() of a CompactBytestrings in any reachable state
\* gives a container equal to the original element by element, whose data is
\* the live elements' bytes back to back, also when the original carries
\* bytes orphaned by ignore; the original is unchanged.
C38_CloneCompacts ==
    [][CBClone =>
          /\ cb' = cb
          /\ cb_clone'.tag = "Ok"
          /\ CBLen(cb_clone'.c) = CBLen(cb)
          /\ \A i \in 0..MaxElems :
                CBGetOp(cb_clone'.c, no_unsafe, i) = CBGetOp(cb, no_unsafe, i)
          /\ LET total[k \in 0..CBLen(cb)] ==
                    IF k = 0 THEN 0 ELSE total[k - 1] + cb.meta[k].len
              IN  Len(cb_clone'.c.data) = total[CBLen(cb)]]_vars

-----------------------------------------------------------------------------
(* Claims about the subtractions of remove *)

\* C39 (as claimed): in FixedCompactBytestrings::remove the subtractions
\* next - start, *s -= len and inner_len - start - len never go below zero in
\* a state reached from empty by push, remove and clear. The third one is
\* computed in the default build only, where it goes below zero exactly when
\* the removed range ends beyond data.
C39_FixedRemoveNoUnderflow ==
    /\ fx_fault # "overflow"
    /\ ~no_unsafe => fx_fault # "bounds"

\* C40 (as claimed): in the re-basing loops of CompactBytestrings::remove and
\* of remove and swap_remove of the CompactStrings of lib.rs, the subtraction
\* from a later entry's start never goes below zero in a state reached from
\* empty by the type's own push, ignore, swap_ignore, remove and swap_remove.
C40_RebaseNoUnderflow ==
    /\ cb_fault # "overflow"
    /\ ls_fault # "overflow"

====
